---------------------------- MODULE Spec2Model ----------------------------
(***************************************************************************)
(* The content-stream interpreter of cosmic-reader, src/lopdf/pdf.rs:      *)
(* page_ops folds a page's operator stream into a list of PageOp values.   *)
(* One action per match arm of the operator loop.  Numbers are integers:   *)
(* every operand used below is exactly representable as f32, so the        *)
(* arithmetic of the code is the integer arithmetic written here.          *)
(***************************************************************************)
EXTENDS Integers, Sequences, FiniteSets, TLC

\* The longest operator stream that is interpreted.
MaxOps == 5

VARIABLES
    status,              \* "start" | "running" | "panicked" | "returned"
    alphabet,            \* the operators content.operations is drawn from
    consumed,            \* the operators the for loop has taken so far
    graphics_states,     \* Vec<GraphicsState>
    text_states,         \* Vec<TextState>
    color_space_fill,    \* String
    color_fill,          \* Vec<Object>
    color_space_stroke,  \* String
    color_stroke,        \* Vec<Object>
    p,                   \* canvas::path::Builder: the segments appended so far
    page_ops,            \* Vec<PageOp>
    hist,                \* history: the locals before the first operator and
                         \* after each consumed one
    replay,              \* the caller: the stream of an earlier invocation that
                         \* this one interprets again, if any
    first,               \* the caller: what that earlier invocation returned
    entry_db,            \* history: the catalog when page_ops was entered
    call,                \* a call of convert_color or of load_fonts on one
                         \* font, on its own: its arguments
                         \* and, once it is over, how it ended
    lock,                \* text::font_system(): the invocation that holds the
                         \* RwLock's write guard, if any
    threads,             \* concurrent invocations of page_ops: where each is
    page,                \* the document: whether get_and_decode_page_content
                         \* and get_page_fonts return Ok for this page
    fonts,               \* the font table of the page's resources
    xobjects,            \* the page's Resources/XObject dictionary, if any
    font_db              \* text::font_system(): the faces of the shared catalog

vars == <<status, alphabet, consumed, graphics_states, text_states,
          color_space_fill, color_fill, color_space_stroke, color_stroke,
          p, page_ops, hist, replay, first, entry_db, call, lock, threads,
          page, fonts, xobjects, font_db>>

colorVars == <<color_space_fill, color_fill, color_space_stroke, color_stroke>>

\* what the document gives the invocation; no operator writes it
inputVars ==
    <<alphabet, page, fonts, xobjects, replay, first, entry_db, call, lock,
      threads>>

-----------------------------------------------------------------------------
(* lopdf::Object and the operand accessors *)

Integer(n) == [kind |-> "Integer", num |-> n, str |-> "", arr |-> <<>>]
Real(n) == [kind |-> "Real", num |-> n, str |-> "", arr |-> <<>>]
Name(s) == [kind |-> "Name", num |-> 0, str |-> s, arr |-> <<>>]
String(s) == [kind |-> "String", num |-> 0, str |-> s, arr |-> <<>>]
Array(a) == [kind |-> "Array", num |-> 0, str |-> "", arr |-> a]

Op(operator, operands) == [operator |-> operator, operands |-> operands]

\* op.operands[i].as_float() is Ok: the index is in bounds (the code counts
\* from 0, the model from 1) and the object is an Integer or a Real.
FloatOk(operands, i) ==
    /\ i <= Len(operands)
    /\ operands[i].kind \in {"Integer", "Real"}

\* the first n operands are all floats
FloatsOk(operands, n) == \A i \in 1..n : FloatOk(operands, i)

\* op.operands[i].as_i64() is Ok: only an Integer object.
I64Ok(operands, i) ==
    /\ i <= Len(operands)
    /\ operands[i].kind = "Integer"

\* as_name_str(&op.operands[i]) is Ok
NameOk(operands, i) ==
    /\ i <= Len(operands)
    /\ operands[i].kind = "Name"

-----------------------------------------------------------------------------
(* Option<T>, as a sequence of length 0 or 1 *)

None == <<>>
Some(x) == <<x>>

-----------------------------------------------------------------------------
(* Transform2D<f32>: <<m11, m12, m21, m22, m31, m32>> *)

Identity == <<1, 0, 0, 1, 0, 0>>

\* Transform2D::transform_point
TransformPoint(t, pt) ==
    <<pt[1] * t[1] + pt[2] * t[3] + t[5], pt[1] * t[2] + pt[2] * t[4] + t[6]>>

\* Transform2D::then: s first, t second
Then(s, t) ==
    <<s[1] * t[1] + s[2] * t[3], s[1] * t[2] + s[2] * t[4],
      s[3] * t[1] + s[4] * t[3], s[3] * t[2] + s[4] * t[4],
      s[5] * t[1] + s[6] * t[3] + t[5], s[5] * t[2] + s[6] * t[4] + t[6]>>

\* a translation applied after the transform instead of before it
ThenTranslate(t, v) == Then(t, <<1, 0, 0, 1, v[1], v[2]>>)

\* Transform2D::pre_translate(v) = translation(v).then(self)
PreTranslate(t, v) == Then(<<1, 0, 0, 1, v[1], v[2]>>, t)

-----------------------------------------------------------------------------
(* GraphicsState, TextState and their defaults *)

\* AttrsOwned::new(&Attrs::new())
DefaultAttrs ==
    [family |-> <<"SansSerif", "">>, stretch |-> "Normal",
     style |-> "Normal", weight |-> 400]

\* impl Default for GraphicsState
DefaultGraphicsState ==
    [line_join_style |-> 0, line_width |-> 1, text_attrs |-> DefaultAttrs,
     text_encoding |-> None, text_leading |-> 0, text_mode |-> 0,
     text_rise |-> 0, text_size |-> 0, transform |-> Identity]

\* impl Default for TextState
DefaultTextState == [cursor_tf |-> Identity, line_tf |-> Identity]

\* TextState::set_tf
SetTf(ts, tf) == [ts EXCEPT !.cursor_tf = tf, !.line_tf = tf]

\* Vec::last / Vec::last_mut of a non-empty vector, and the vector with its
\* last element replaced (what a write through last_mut() leaves)
Last(s) == s[Len(s)]
\* a write that reaches every frame of the stack, as frames that shared one
\* state would show it
SetEvery(s, x) == [i \in 1..Len(s) |-> x]

\* the vector after a write of x through last_mut()
SetLast(s, x) == [s EXCEPT ![Len(s)] = x]
\* Vec::pop: an empty vector stays empty
Pop(s) == IF s = <<>> THEN s ELSE SubSeq(s, 1, Len(s) - 1)

-----------------------------------------------------------------------------
(* convert_color *)

\* a conversion that reads a first component in every space
ConvertColorOkIndexing(color_space, color) ==
    CASE color_space = "DeviceRGB" -> FloatsOk(color, 3)
      [] color_space = "DeviceCMYK" ->
            /\ FloatsOk(color, 3)
            /\ Len(color) > 3 => FloatOk(color, 4)
      [] OTHER -> FloatsOk(color, 1)

\* convert_color does not panic: every component it indexes is there and is
\* a float.
ConvertColorOk(color_space, color) ==
    CASE color_space = "DeviceGray" -> FloatsOk(color, 1)
      [] color_space = "DeviceRGB" -> FloatsOk(color, 3)
      [] color_space = "DeviceCMYK" ->
            /\ FloatsOk(color, 3)
            /\ Len(color) > 3 => FloatOk(color, 4)
      [] OTHER -> TRUE

\* color_space::Cmy::to_rgb, on the 0..255 scale of that crate
CmyToRgb(c, m, y) == <<(1 - c) * 255, (1 - m) * 255, (1 - y) * 255>>

\* color_space::Cmyk::to_rgb
CmykToRgb(c, m, y, k) ==
    CmyToRgb(c * (1 - k) + k, m * (1 - k) + k, y * (1 - k) + k)

\* a conversion that puts a gray level in the red channel only and reads
\* RGB components in reverse
ConvertColorChannels(color_space, color) ==
    CASE color_space = "DeviceGray" -> <<color[1].num, 0, 0>>
      [] color_space = "DeviceRGB" ->
            <<color[3].num, color[2].num, color[1].num>>
      [] OTHER -> <<0, 0, 0>>

\* a conversion that never reads a fourth component
ConvertColorWithoutK(color_space, color) ==
    CASE color_space = "DeviceGray" ->
            <<color[1].num, color[1].num, color[1].num>>
      [] color_space = "DeviceRGB" ->
            <<color[1].num, color[2].num, color[3].num>>
      [] color_space = "DeviceCMYK" ->
            CmyToRgb(color[1].num, color[2].num, color[3].num)
      [] OTHER -> <<0, 0, 0>>

\* convert_color, where it does not panic: the Color as <<r, g, b>>
ConvertColor(color_space, color) ==
    CASE color_space = "DeviceGray" ->
            <<color[1].num, color[1].num, color[1].num>>
      [] color_space = "DeviceRGB" ->
            <<color[1].num, color[2].num, color[3].num>>
      [] color_space = "DeviceCMYK" ->
            IF Len(color) > 3
            THEN CmykToRgb(color[1].num, color[2].num, color[3].num,
                           color[4].num)
            ELSE CmyToRgb(color[1].num, color[2].num, color[3].num)
      [] OTHER -> <<0, 0, 0>>

-----------------------------------------------------------------------------
(* The path accumulator: the calls made on canvas::path::Builder *)

Seg(seg, pts) == [seg |-> seg, pts |-> pts]
CloseSeg == Seg("close", <<>>)

\* Builder::rectangle: move_to, three line_to, close
Rectangle(x, y, w, h) ==
    <<Seg("move", <<<<x, y>>>>), Seg("line", <<<<x + w, y>>>>),
      Seg("line", <<<<x + w, y + h>>>>), Seg("line", <<<<x, y + h>>>>),
      CloseSeg>>

\* Path::transform: every point of every segment through the transform
TransformPath(segs, t) ==
    [i \in 1..Len(segs) |->
        Seg(segs[i].seg,
            [j \in 1..Len(segs[i].pts) |-> TransformPoint(t, segs[i].pts[j])])]

\* a finish_path that builds the path and leaves out the transform
FinishPathAsBuilt(original, transform) == original

\* finish_path: the path built from the accumulator, transformed (the
\* accumulator itself is swapped for an empty one by the caller's p' = <<>>)
FinishPath(original, transform) == TransformPath(original, transform)

\* the geometry of a PageOp: painted segments, or the glyph runs of a text
PathOf(segs) == [segs |-> segs, glyphs |-> <<>>]

-----------------------------------------------------------------------------
(* The font catalog: load_fonts and ttf::parse_face_info *)

\* parse_names: the families and the PostScript name of the name table, None
\* when the table has no family or no PostScript name
ParseNames(raw_face) ==
    IF raw_face.families = <<>> \/ raw_face.post_script = None
    THEN None
    ELSE Some([families |-> raw_face.families,
               post_script_name |-> raw_face.post_script[1]])

\* a fallback that never has a name
FallbackNothing(font) == None

\* the closure load_fonts passes as fallback_families: BaseFont as the only
\* family and as the PostScript name
FallbackFamilies(font) ==
    IF font.BaseFont = None
    THEN None
    ELSE Some([families |-> <<font.BaseFont[1]>>,
               post_script_name |-> font.BaseFont[1]])

\* parse_face_info: [err, info, consulted], the last one telling whether
\* the fallback closure was called
ParseFaceInfo(raw_face, font) ==
    LET consulted == ParseNames(raw_face) = None
        names == IF ~consulted
                 THEN ParseNames(raw_face)
                 ELSE FallbackFamilies(font)
    IN  IF ~raw_face.wellformed
        THEN [err |-> "MalformedFont", info |-> None, consulted |-> FALSE]
        ELSE IF names = None
        THEN [err |-> "UnnamedFont", info |-> None, consulted |-> consulted]
        ELSE [err |-> "", consulted |-> consulted,
              info |-> Some([families |-> names[1].families,
                             post_script_name |-> names[1].post_script_name,
                             style |-> IF raw_face.style = "Normal"
                                          /\ raw_face.italic
                                       THEN "Italic" ELSE raw_face.style,
                             weight |-> raw_face.weight,
                             stretch |-> raw_face.stretch,
                             monospaced |-> raw_face.monospaced])]

\* the faces one font of the table adds to the catalog: none without a
\* FontDescriptor or a FontFile2, else every face of the program that loads
RECURSIVE FacesOf(_, _)
FacesOf(font, programs) ==
    IF programs = <<>>
    THEN <<>>
    ELSE LET r == ParseFaceInfo(Head(programs), font)
         IN  (IF r.err = "" THEN r.info ELSE <<>>)
             \o FacesOf(font, Tail(programs))

\* load_fonts: the catalog after the loop over the table, in key order
RECURSIVE LoadFonts(_, _)
LoadFonts(table, db) ==
    IF table = <<>>
    THEN db
    ELSE LET font == Head(table)
             added == IF font.desc = None \/ font.desc[1].FontFile2 = None
                      THEN <<>>
                      ELSE FacesOf(font, font.desc[1].FontFile2[1])
         IN  LoadFonts(Tail(table), db \o added)

-----------------------------------------------------------------------------
(* page_ops: entry, the operator loop, return *)

Running == status = "running" /\ Len(consumed) < MaxOps

\* content.operations: any operator of the alphabet comes next, or, when the
\* caller interprets a stream again, the next operator of that stream
NextOps ==
    IF replay = None THEN alphabet
    ELSE IF Len(consumed) < Len(replay[1])
    THEN {replay[1][Len(consumed) + 1]}
    ELSE {}

\* the locals as a record of the history
Snapshot(gs_stack, ts_stack, path, ops) ==
    [graphics_states |-> gs_stack, text_states |-> ts_stack, p |-> path,
     out_len |-> Len(ops)]

\* the for loop has taken op; the history records what it left
Took(op) ==
    /\ consumed' = Append(consumed, op)
    /\ hist' = Append(hist, Snapshot(graphics_states', text_states', p',
                                     page_ops'))

\* an unwrap() of an Err or a None, or an index out of bounds: the thread
\* unwinds and page_ops returns nothing.  The locals are kept as they were
\* before the operator (they are dropped, nothing reads them again).
Panic(op) ==
    /\ status' = "panicked"
    /\ UNCHANGED <<graphics_states, text_states, colorVars, p, page_ops,
                   font_db>>
    /\ Took(op)

\* lines 316-322: the table get_page_fonts returns, an empty one on Err
FontTable == IF page.fonts THEN fonts ELSE <<>>

\* lines 306-337: the content is there, the page's fonts are registered, the
\* locals are initialised
BeginPage ==
    /\ status = "start"
    /\ page.content
    /\ status' = "running"
    /\ font_db' = LoadFonts(FontTable, font_db)
    /\ color_space_fill' = "DeviceGray"
    /\ color_fill' = <<Real(0)>>
    /\ color_space_stroke' = "DeviceGray"
    /\ color_stroke' = <<Real(0)>>
    /\ graphics_states' = <<DefaultGraphicsState>>
    /\ text_states' = <<>>
    /\ p' = <<>>
    /\ hist' = <<Snapshot(graphics_states', text_states', p', page_ops)>>
    /\ entry_db' = font_db
    /\ UNCHANGED <<alphabet, page, fonts, xobjects, replay, first, call, lock,
                   threads, consumed, page_ops>>

\* lines 308-314: the content cannot be obtained, the empty list is returned
NoContent ==
    /\ status = "start"
    /\ ~page.content
    /\ status' = "returned"
    /\ page_ops' = <<>>
    /\ UNCHANGED <<inputVars, consumed, graphics_states, text_states,
                   colorVars, p, hist, font_db>>

\* the stream is exhausted: line 847
Return ==
    /\ status = "running"
    /\ replay # None => Len(consumed) = Len(replay[1])
    /\ status' = "returned"
    /\ UNCHANGED <<inputVars, consumed, graphics_states, text_states,
                   colorVars, p, page_ops, hist, font_db>>

-----------------------------------------------------------------------------
(* Path construction *)

Num(operands, i) == operands[i].num
Pt(operands, i) == <<operands[i].num, operands[i + 1].num>>

\* "c": bezier_curve_to
OpC ==
    \E op \in NextOps :
        /\ Running
        /\ op.operator = "c"
        /\ UNCHANGED inputVars
        /\ IF FloatsOk(op.operands, 6)
           THEN /\ p' = Append(p, Seg("curve", <<Pt(op.operands, 1),
                                   Pt(op.operands, 3), Pt(op.operands, 5)>>))
                /\ UNCHANGED <<status, graphics_states, text_states,
                               colorVars, page_ops, font_db>>
                /\ Took(op)
           ELSE Panic(op)

\* "h": close
OpH ==
    \E op \in NextOps :
        /\ Running
        /\ op.operator = "h"
        /\ UNCHANGED inputVars
        /\ p' = Append(p, CloseSeg)
        /\ UNCHANGED <<status, graphics_states, text_states, colorVars,
                       page_ops, font_db>>
        /\ Took(op)

\* "l": line_to
OpL ==
    \E op \in NextOps :
        /\ Running
        /\ op.operator = "l"
        /\ UNCHANGED inputVars
        /\ IF FloatsOk(op.operands, 2)
           THEN /\ p' = Append(p, Seg("line", <<Pt(op.operands, 1)>>))
                /\ UNCHANGED <<status, graphics_states, text_states,
                               colorVars, page_ops, font_db>>
                /\ Took(op)
           ELSE Panic(op)

\* "m": move_to
OpM ==
    \E op \in NextOps :
        /\ Running
        /\ op.operator = "m"
        /\ UNCHANGED inputVars
        /\ IF FloatsOk(op.operands, 2)
           THEN /\ p' = Append(p, Seg("move", <<Pt(op.operands, 1)>>))
                /\ UNCHANGED <<status, graphics_states, text_states,
                               colorVars, page_ops, font_db>>
                /\ Took(op)
           ELSE Panic(op)

\* "re": rectangle
OpRe ==
    \E op \in NextOps :
        /\ Running
        /\ op.operator = "re"
        /\ UNCHANGED inputVars
        /\ IF FloatsOk(op.operands, 4)
           THEN /\ p' = p \o Rectangle(Num(op.operands, 1), Num(op.operands, 2),
                                        Num(op.operands, 3), Num(op.operands, 4))
                /\ UNCHANGED <<status, graphics_states, text_states,
                               colorVars, page_ops, font_db>>
                /\ Took(op)
           ELSE Panic(op)

-----------------------------------------------------------------------------
(* Path painting *)

\* the tokens of the match arm at line 379
PaintingArm == {"b", "B", "b*", "B*", "f", "f*", "n", "s", "S"}

\* the tokens of the table at lines 380-392
PaintingTokens == {"b", "B", "b*", "B*", "f", "f*", "F", "n", "s", "S"}

\* a table whose stroke-only rows fill and whose fill-only rows stroke
PaintingTableSwapped(operator) ==
    [close |-> operator \in {"b", "b*", "f", "s"},
     fill |-> operator \in {"b", "B", "b*", "B*", "s", "S"},
     stroke |-> operator \in {"b", "B", "b*", "B*", "f", "f*", "F"},
     rule |-> IF operator \in {"b*", "B*", "f*"} THEN "EvenOdd" ELSE "NonZero"]

\* the table at lines 380-392: (close, fill, stroke, rule)
PaintingTable(operator) ==
    CASE operator = "b" ->
            [close |-> TRUE, fill |-> TRUE, stroke |-> TRUE, rule |-> "NonZero"]
      [] operator = "B" ->
            [close |-> FALSE, fill |-> TRUE, stroke |-> TRUE, rule |-> "NonZero"]
      [] operator = "b*" ->
            [close |-> TRUE, fill |-> TRUE, stroke |-> TRUE, rule |-> "EvenOdd"]
      [] operator = "B*" ->
            [close |-> FALSE, fill |-> TRUE, stroke |-> TRUE, rule |-> "EvenOdd"]
      [] operator = "f" ->
            [close |-> TRUE, fill |-> TRUE, stroke |-> FALSE, rule |-> "NonZero"]
      [] operator = "f*" ->
            [close |-> FALSE, fill |-> TRUE, stroke |-> FALSE, rule |-> "EvenOdd"]
      [] operator = "F" ->
            [close |-> FALSE, fill |-> TRUE, stroke |-> FALSE, rule |-> "NonZero"]
      [] operator = "n" ->
            [close |-> FALSE, fill |-> FALSE, stroke |-> FALSE, rule |-> "NonZero"]
      [] operator = "s" ->
            [close |-> TRUE, fill |-> FALSE, stroke |-> TRUE, rule |-> "NonZero"]
      [] operator = "S" ->
            [close |-> FALSE, fill |-> FALSE, stroke |-> TRUE, rule |-> "NonZero"]

\* lines 418-423
LineJoin(line_join_style) ==
    CASE line_join_style = 0 -> "Miter"
      [] line_join_style = 1 -> "Round"
      [] line_join_style = 2 -> "Bevel"
      [] OTHER -> "Miter"

\* the PageOp pushed at lines 404-429
PaintedOp(tab, segs, gs, space_fill, fill, space_stroke, stroke) ==
    [path |-> Some(PathOf(FinishPath(segs, gs.transform))),
     fill |-> IF tab.fill
              THEN Some([color |-> ConvertColor(space_fill, fill),
                         rule |-> tab.rule])
              ELSE None,
     stroke |-> IF tab.stroke
                THEN Some([color |-> ConvertColor(space_stroke, stroke),
                           line_join |-> LineJoin(gs.line_join_style)])
                ELSE None,
     image |-> None]

\* a painting arm that puts its operation in front of the list
OpPaintPrepends ==
    \E op \in NextOps :
        /\ Running
        /\ op.operator \in PaintingArm
        /\ UNCHANGED inputVars
        /\ IF graphics_states = <<>>
           THEN Panic(op)
           ELSE /\ page_ops' = <<[path |-> Some(PathOf(FinishPath(p,
                                      Last(graphics_states).transform))),
                                  fill |-> None, stroke |-> None,
                                  image |-> None]>> \o page_ops
                /\ p' = <<>>
                /\ UNCHANGED <<status, graphics_states, text_states,
                               colorVars, font_db>>
                /\ Took(op)

\* the painting arm: close, finish the path under the current transform, push
OpPaint ==
    \E op \in NextOps :
        /\ Running
        /\ op.operator \in PaintingArm
        /\ UNCHANGED inputVars
        /\ LET tab == PaintingTable(op.operator)
               closed == IF tab.close THEN Append(p, CloseSeg) ELSE p
           IN  IF \/ graphics_states = <<>>
                  \/ tab.fill /\ ~ConvertColorOk(color_space_fill, color_fill)
                  \/ tab.stroke
                        /\ ~ConvertColorOk(color_space_stroke, color_stroke)
               THEN Panic(op)
               ELSE /\ page_ops' = Append(page_ops,
                          PaintedOp(tab, closed, Last(graphics_states),
                                    color_space_fill, color_fill,
                                    color_space_stroke, color_stroke))
                    /\ p' = <<>>
                    /\ UNCHANGED <<status, graphics_states, text_states,
                                   colorVars, font_db>>
                    /\ Took(op)

-----------------------------------------------------------------------------
(* Graphics state *)

\* "cm"
OpCm ==
    \E op \in NextOps :
        /\ Running
        /\ op.operator = "cm"
        /\ UNCHANGED inputVars
        /\ IF FloatsOk(op.operands, 6) /\ graphics_states # <<>>
           THEN /\ graphics_states' = SetLast(graphics_states,
                        [Last(graphics_states) EXCEPT !.transform =
                            [i \in 1..6 |-> Num(op.operands, i)]])
                /\ UNCHANGED <<status, text_states, colorVars, p, page_ops,
                               font_db>>
                /\ Took(op)
           ELSE Panic(op)

\* "j"
OpJ ==
    \E op \in NextOps :
        /\ Running
        /\ op.operator = "j"
        /\ UNCHANGED inputVars
        /\ IF graphics_states # <<>> /\ I64Ok(op.operands, 1)
           THEN /\ graphics_states' = SetLast(graphics_states,
                        [Last(graphics_states) EXCEPT !.line_join_style =
                            Num(op.operands, 1)])
                /\ UNCHANGED <<status, text_states, colorVars, p, page_ops,
                               font_db>>
                /\ Took(op)
           ELSE Panic(op)

\* "q": graphics_states.last().cloned().unwrap_or_default(), pushed
OpSave ==
    \E op \in NextOps :
        /\ Running
        /\ op.operator = "q"
        /\ UNCHANGED inputVars
        /\ graphics_states' = Append(graphics_states,
                IF graphics_states = <<>> THEN DefaultGraphicsState
                ELSE Last(graphics_states))
        /\ UNCHANGED <<status, text_states, colorVars, p, page_ops, font_db>>
        /\ Took(op)

\* a restore that drops every saved frame instead of the last one
OpRestoreTruncate ==
    \E op \in NextOps :
        /\ Running
        /\ op.operator = "Q"
        /\ UNCHANGED inputVars
        /\ graphics_states' = SubSeq(graphics_states, 1, 1)
        /\ UNCHANGED <<status, text_states, colorVars, p, page_ops, font_db>>
        /\ Took(op)

\* a restore that also puts the colours back to what the page starts with
OpRestoreResetsColor ==
    \E op \in NextOps :
        /\ Running
        /\ op.operator = "Q"
        /\ UNCHANGED inputVars
        /\ graphics_states' = Pop(graphics_states)
        /\ color_space_fill' = "DeviceGray"
        /\ color_fill' = <<Real(0)>>
        /\ color_space_stroke' = "DeviceGray"
        /\ color_stroke' = <<Real(0)>>
        /\ UNCHANGED <<status, text_states, p, page_ops, font_db>>
        /\ Took(op)

\* "Q": graphics_states.pop()
OpRestore ==
    \E op \in NextOps :
        /\ Running
        /\ op.operator = "Q"
        /\ UNCHANGED inputVars
        /\ graphics_states' = Pop(graphics_states)
        /\ UNCHANGED <<status, text_states, colorVars, p, page_ops, font_db>>
        /\ Took(op)

\* "w"
OpW ==
    \E op \in NextOps :
        /\ Running
        /\ op.operator = "w"
        /\ UNCHANGED inputVars
        /\ IF graphics_states # <<>> /\ FloatOk(op.operands, 1)
           THEN /\ graphics_states' = SetLast(graphics_states,
                        [Last(graphics_states) EXCEPT !.line_width =
                            Num(op.operands, 1)])
                /\ UNCHANGED <<status, text_states, colorVars, p, page_ops,
                               font_db>>
                /\ Took(op)
           ELSE Panic(op)

-----------------------------------------------------------------------------
(* Colour *)

\* a cs that also puts the components back to the one-element default
OpFillColorSpaceResets ==
    \E op \in NextOps :
        /\ Running
        /\ op.operator = "cs"
        /\ UNCHANGED inputVars
        /\ IF NameOk(op.operands, 1)
           THEN /\ color_space_fill' = op.operands[1].str
                /\ color_fill' = <<Real(0)>>
                /\ UNCHANGED <<status, graphics_states, text_states,
                               color_space_stroke, color_stroke,
                               p, page_ops, font_db>>
                /\ Took(op)
           ELSE Panic(op)

\* "cs"
OpFillColorSpace ==
    \E op \in NextOps :
        /\ Running
        /\ op.operator = "cs"
        /\ UNCHANGED inputVars
        /\ IF NameOk(op.operands, 1)
           THEN /\ color_space_fill' = op.operands[1].str
                /\ UNCHANGED <<status, graphics_states, text_states,
                               color_fill, color_space_stroke, color_stroke,
                               p, page_ops, font_db>>
                /\ Took(op)
           ELSE Panic(op)

\* "CS"
OpStrokeColorSpace ==
    \E op \in NextOps :
        /\ Running
        /\ op.operator = "CS"
        /\ UNCHANGED inputVars
        /\ IF NameOk(op.operands, 1)
           THEN /\ color_space_stroke' = op.operands[1].str
                /\ UNCHANGED <<status, graphics_states, text_states,
                               color_space_fill, color_fill, color_stroke,
                               p, page_ops, font_db>>
                /\ Took(op)
           ELSE Panic(op)

\* the space a fill or stroke colour operator names: g/G, k/K, rg/RG
DeviceSpace(operator) ==
    CASE operator \in {"g", "G"} -> "DeviceGray"
      [] operator \in {"k", "K"} -> "DeviceCMYK"
      [] operator \in {"rg", "RG"} -> "DeviceRGB"

\* "g", "k", "rg": the space and the components of the fill colour
OpFillDevice ==
    \E op \in NextOps :
        /\ Running
        /\ op.operator \in {"g", "k", "rg"}
        /\ UNCHANGED inputVars
        /\ color_space_fill' = DeviceSpace(op.operator)
        /\ color_fill' = op.operands
        /\ UNCHANGED <<status, graphics_states, text_states,
                       color_space_stroke, color_stroke, p, page_ops, font_db>>
        /\ Took(op)

\* a stroke colour operator that writes the fill colour
OpStrokeDeviceSetsFill ==
    \E op \in NextOps :
        /\ Running
        /\ op.operator \in {"G", "K", "RG"}
        /\ UNCHANGED inputVars
        /\ color_space_fill' = DeviceSpace(op.operator)
        /\ color_fill' = op.operands
        /\ UNCHANGED <<status, graphics_states, text_states,
                       color_space_stroke, color_stroke, p, page_ops, font_db>>
        /\ Took(op)

\* "G", "K", "RG": the space and the components of the stroke colour
OpStrokeDevice ==
    \E op \in NextOps :
        /\ Running
        /\ op.operator \in {"G", "K", "RG"}
        /\ UNCHANGED inputVars
        /\ color_space_stroke' = DeviceSpace(op.operator)
        /\ color_stroke' = op.operands
        /\ UNCHANGED <<status, graphics_states, text_states,
                       color_space_fill, color_fill, p, page_ops, font_db>>
        /\ Took(op)

\* "scn"
OpFillColor ==
    \E op \in NextOps :
        /\ Running
        /\ op.operator = "scn"
        /\ UNCHANGED inputVars
        /\ color_fill' = op.operands
        /\ UNCHANGED <<status, graphics_states, text_states, color_space_fill,
                       color_space_stroke, color_stroke, p, page_ops, font_db>>
        /\ Took(op)

\* "SCN"
OpStrokeColor ==
    \E op \in NextOps :
        /\ Running
        /\ op.operator = "SCN"
        /\ UNCHANGED inputVars
        /\ color_stroke' = op.operands
        /\ UNCHANGED <<status, graphics_states, text_states, color_space_fill,
                       color_fill, color_space_stroke, p, page_ops, font_db>>
        /\ Took(op)

-----------------------------------------------------------------------------
(* Text object *)

\* a BT that starts over instead of pushing
OpBTReplaces ==
    \E op \in NextOps :
        /\ Running
        /\ op.operator = "BT"
        /\ UNCHANGED inputVars
        /\ text_states' = <<DefaultTextState>>
        /\ UNCHANGED <<status, graphics_states, colorVars, p, page_ops,
                       font_db>>
        /\ Took(op)

\* a BT whose text object starts where the enclosing one has got to
OpBTInherits ==
    \E op \in NextOps :
        /\ Running
        /\ op.operator = "BT"
        /\ UNCHANGED inputVars
        /\ text_states' = Append(text_states,
                                 IF text_states = <<>> THEN DefaultTextState
                                 ELSE Last(text_states))
        /\ UNCHANGED <<status, graphics_states, colorVars, p, page_ops,
                       font_db>>
        /\ Took(op)

\* "BT"
OpBT ==
    \E op \in NextOps :
        /\ Running
        /\ op.operator = "BT"
        /\ UNCHANGED inputVars
        /\ text_states' = Append(text_states, DefaultTextState)
        /\ UNCHANGED <<status, graphics_states, colorVars, p, page_ops,
                       font_db>>
        /\ Took(op)

\* an ET that ends the text style with the text object
OpETDropsStyle ==
    \E op \in NextOps :
        /\ Running
        /\ op.operator = "ET"
        /\ UNCHANGED inputVars
        /\ text_states' = Pop(text_states)
        /\ graphics_states' =
              IF graphics_states = <<>> THEN graphics_states
              ELSE SetLast(graphics_states,
                      [Last(graphics_states) EXCEPT
                          !.text_attrs = DefaultAttrs, !.text_encoding = None,
                          !.text_leading = 0, !.text_rise = 0,
                          !.text_size = 0])
        /\ UNCHANGED <<status, colorVars, p, page_ops, font_db>>
        /\ Took(op)

\* "ET"
OpET ==
    \E op \in NextOps :
        /\ Running
        /\ op.operator = "ET"
        /\ UNCHANGED inputVars
        /\ text_states' = Pop(text_states)
        /\ UNCHANGED <<status, graphics_states, colorVars, p, page_ops,
                       font_db>>
        /\ Took(op)

-----------------------------------------------------------------------------
(* Text state: Tf, TL, Ts *)

\* fonts.iter().find(|(font_name, _)| name.as_bytes() == *font_name)
RECURSIVE FindFont(_, _)
FindFont(table, name) ==
    IF table = <<>> THEN None
    ELSE IF Head(table).name = name THEN Some(Head(table))
    ELSE FindFont(Tail(table), name)

\* the names of the Stretch enumeration matched at lines 472-485
StretchNames ==
    {"UltraCondensed", "ExtraCondensed", "Condensed", "SemiCondensed",
     "Normal", "SemiExpanded", "Expanded", "ExtraExpanded", "UltraExpanded"}

\* bit n of the descriptor Flags is set: flags & (1 << n) != 0
FlagSet(flags, n) == (flags \div (2 ^ n)) % 2 = 1

\* lines 468-534: the attributes the FontDescriptor gives
DescriptorAttrs(desc) ==
    LET a1 == IF desc.FontStretch # None /\ desc.FontStretch[1] \in StretchNames
              THEN [DefaultAttrs EXCEPT !.stretch = desc.FontStretch[1]]
              ELSE DefaultAttrs
        \* u16::try_from(font_weight)
        a2 == IF desc.FontWeight # None /\ desc.FontWeight[1] >= 0
                 /\ desc.FontWeight[1] <= 65535
              THEN [a1 EXCEPT !.weight = desc.FontWeight[1]]
              ELSE a1
        a3 == IF desc.Flags = None THEN a2
              ELSE LET flags == desc.Flags[1]
                       fam == IF FlagSet(flags, 0)
                              THEN <<"Name", "Liberation Mono">>
                              ELSE IF FlagSet(flags, 1)
                              THEN <<"Name", "Liberation Serif">>
                              ELSE IF FlagSet(flags, 3)
                              THEN <<"Cursive", "">>
                              ELSE <<"Name", "Liberation Sans">>
                   IN  [a2 EXCEPT !.family = fam,
                                  !.style = IF FlagSet(flags, 6) THEN "Italic"
                                            ELSE a2.style]
    IN  IF desc.FontFamily # None
        THEN [a3 EXCEPT !.family = <<"Name", desc.FontFamily[1]>>]
        ELSE a3

\* a lookup that keeps the last face with that PostScript name: the loop
\* without its break
RECURSIVE FindFaceLast(_, _)
FindFaceLast(db, base_font) ==
    IF db = <<>> THEN None
    ELSE IF FindFaceLast(Tail(db), base_font) # None
    THEN FindFaceLast(Tail(db), base_font)
    ELSE IF Head(db).post_script_name = base_font THEN Some(Head(db))
    ELSE None

\* lines 550-565: the first face of the catalog with that PostScript name
RECURSIVE FindFace(_, _)
FindFace(db, base_font) ==
    IF db = <<>> THEN None
    ELSE IF Head(db).post_script_name = base_font THEN Some(Head(db))
    ELSE FindFace(Tail(db), base_font)

\* lines 447-580: the encoding and the attributes Tf records for a font name
TfAttrs(table, db, name) ==
    LET found == FindFont(table, name)
    IN  IF found = None
        THEN [encoding |-> None, attrs |-> DefaultAttrs]
        ELSE LET font == found[1]
                 a == IF font.desc = None THEN DefaultAttrs
                      ELSE DescriptorAttrs(font.desc[1])
                 face == IF font.BaseFont = None THEN None
                         ELSE FindFace(db, font.BaseFont[1])
             IN  [encoding |-> font.encoding,
                  attrs |-> IF face = None THEN a
                            ELSE [family |-> <<"Name", face[1].families[1]>>,
                                  stretch |-> face[1].stretch,
                                  style |-> face[1].style,
                                  weight |-> face[1].weight]]

\* "Tf"
OpTf ==
    \E op \in NextOps :
        /\ Running
        /\ op.operator = "Tf"
        /\ UNCHANGED inputVars
        /\ IF NameOk(op.operands, 1) /\ FloatOk(op.operands, 2)
              /\ graphics_states # <<>>
           THEN /\ LET r == TfAttrs(FontTable, font_db, op.operands[1].str)
                   IN  graphics_states' = SetLast(graphics_states,
                           [Last(graphics_states) EXCEPT
                               !.text_encoding = r.encoding,
                               !.text_attrs = r.attrs,
                               !.text_size = Num(op.operands, 2)])
                /\ UNCHANGED <<status, text_states, colorVars, p, page_ops,
                               font_db>>
                /\ Took(op)
           ELSE Panic(op)

\* "TL"
OpTL ==
    \E op \in NextOps :
        /\ Running
        /\ op.operator = "TL"
        /\ UNCHANGED inputVars
        /\ IF FloatOk(op.operands, 1) /\ graphics_states # <<>>
           THEN /\ graphics_states' = SetLast(graphics_states,
                        [Last(graphics_states) EXCEPT !.text_leading =
                            Num(op.operands, 1)])
                /\ UNCHANGED <<status, text_states, colorVars, p, page_ops,
                               font_db>>
                /\ Took(op)
           ELSE Panic(op)

\* "Ts"
OpTs ==
    \E op \in NextOps :
        /\ Running
        /\ op.operator = "Ts"
        /\ UNCHANGED inputVars
        /\ IF FloatOk(op.operands, 1) /\ graphics_states # <<>>
           THEN /\ graphics_states' = SetLast(graphics_states,
                        [Last(graphics_states) EXCEPT !.text_rise =
                            Num(op.operands, 1)])
                /\ UNCHANGED <<status, text_states, colorVars, p, page_ops,
                               font_db>>
                /\ Took(op)
           ELSE Panic(op)

-----------------------------------------------------------------------------
(* Text positioning: T*, Td, TD, Tm *)

\* a T* that moves on from the cursor instead of from the line start
OpTStarFromCursor ==
    \E op \in NextOps :
        /\ Running
        /\ op.operator = "T*"
        /\ UNCHANGED inputVars
        /\ IF graphics_states # <<>> /\ text_states # <<>>
           THEN /\ text_states' = SetLast(text_states,
                        SetTf(Last(text_states),
                              PreTranslate(Last(text_states).cursor_tf,
                                  <<0, -Last(graphics_states).text_leading>>)))
                /\ UNCHANGED <<status, graphics_states, colorVars, p,
                               page_ops, font_db>>
                /\ Took(op)
           ELSE Panic(op)

\* "T*"
OpTStar ==
    \E op \in NextOps :
        /\ Running
        /\ op.operator = "T*"
        /\ UNCHANGED inputVars
        /\ IF graphics_states # <<>> /\ text_states # <<>>
           THEN /\ text_states' = SetLast(text_states,
                        SetTf(Last(text_states),
                              PreTranslate(Last(text_states).line_tf,
                                  <<0, -Last(graphics_states).text_leading>>)))
                /\ UNCHANGED <<status, graphics_states, colorVars, p,
                               page_ops, font_db>>
                /\ Took(op)
           ELSE Panic(op)

\* a Td that moves on from the cursor instead of from the line start
OpTdFromCursor ==
    \E op \in NextOps :
        /\ Running
        /\ op.operator = "Td"
        /\ UNCHANGED inputVars
        /\ IF FloatsOk(op.operands, 2) /\ text_states # <<>>
           THEN /\ text_states' = SetLast(text_states,
                        SetTf(Last(text_states),
                              PreTranslate(Last(text_states).cursor_tf,
                                           Pt(op.operands, 1))))
                /\ UNCHANGED <<status, graphics_states, colorVars, p,
                               page_ops, font_db>>
                /\ Took(op)
           ELSE Panic(op)

\* "Td"
OpTd ==
    \E op \in NextOps :
        /\ Running
        /\ op.operator = "Td"
        /\ UNCHANGED inputVars
        /\ IF FloatsOk(op.operands, 2) /\ text_states # <<>>
           THEN /\ text_states' = SetLast(text_states,
                        SetTf(Last(text_states),
                              PreTranslate(Last(text_states).line_tf,
                                           Pt(op.operands, 1))))
                /\ UNCHANGED <<status, graphics_states, colorVars, p,
                               page_ops, font_db>>
                /\ Took(op)
           ELSE Panic(op)

\* "TD": as Td; gs is fetched and not written
OpTD ==
    \E op \in NextOps :
        /\ Running
        /\ op.operator = "TD"
        /\ UNCHANGED inputVars
        /\ IF FloatsOk(op.operands, 2) /\ graphics_states # <<>>
              /\ text_states # <<>>
           THEN /\ text_states' = SetLast(text_states,
                        SetTf(Last(text_states),
                              PreTranslate(Last(text_states).line_tf,
                                           Pt(op.operands, 1))))
                /\ UNCHANGED <<status, graphics_states, colorVars, p,
                               page_ops, font_db>>
                /\ Took(op)
           ELSE Panic(op)

\* a Tm that concatenates its matrix with the line transform
OpTmConcatenates ==
    \E op \in NextOps :
        /\ Running
        /\ op.operator = "Tm"
        /\ UNCHANGED inputVars
        /\ IF FloatsOk(op.operands, 6) /\ text_states # <<>>
           THEN /\ text_states' = SetLast(text_states,
                        SetTf(Last(text_states),
                              Then([i \in 1..6 |-> Num(op.operands, i)],
                                   Last(text_states).line_tf)))
                /\ UNCHANGED <<status, graphics_states, colorVars, p,
                               page_ops, font_db>>
                /\ Took(op)
           ELSE Panic(op)

\* "Tm"
OpTm ==
    \E op \in NextOps :
        /\ Running
        /\ op.operator = "Tm"
        /\ UNCHANGED inputVars
        /\ IF FloatsOk(op.operands, 6) /\ text_states # <<>>
           THEN /\ text_states' = SetLast(text_states,
                        SetTf(Last(text_states),
                              [i \in 1..6 |-> Num(op.operands, i)]))
                /\ UNCHANGED <<status, graphics_states, colorVars, p,
                               page_ops, font_db>>
                /\ Took(op)
           ELSE Panic(op)

-----------------------------------------------------------------------------
(* Text showing: Tj, TJ *)

\* Transform::scale(1.0, -1.0)
Flip == <<1, 0, 0, -1, 0, 0>>

\* the decoded run: Document::decode_text under the font's encoding, or
\* String::from_utf8_lossy of the bytes without one
DecodeText(encoding, bytes) == [encoding |-> encoding, bytes |-> bytes]

\* the Text built at lines 688-703
TextOf(content, gs, color) ==
    [content |-> content, position |-> <<0, -gs.text_rise - gs.text_size>>,
     color |-> color, size |-> gs.text_size, line_height |-> gs.text_leading,
     attrs |-> gs.text_attrs]

\* Text::draw_with, the measured advance it returns: one unit of the font
\* size for every byte of the run
MeasuredWidth(text) == Len(text.content.bytes) * text.size

\* Text::draw_with, the outline it hands to the callback: the shaped run
GlyphOutline(text) ==
    [content |-> text.content, position |-> text.position,
     size |-> text.size, attrs |-> text.attrs]

\* a callback that moves the outline by the cursor transform without
\* flipping it
TextOpUnflipped(text, cursor_tf) ==
    [path |-> Some([segs |-> <<>>,
                    glyphs |-> <<[outline |-> GlyphOutline(text),
                                  tf |-> cursor_tf]>>]),
     fill |-> Some([color |-> text.color, rule |-> "NonZero"]),
     stroke |-> None,
     image |-> None]

\* the callback at lines 705-725: the outline flipped, then moved by the
\* cursor transform, pushed with the fill colour
TextOp(text, cursor_tf) ==
    [path |-> Some([segs |-> <<>>,
                    glyphs |-> <<[outline |-> GlyphOutline(text),
                                  tf |-> Then(Flip, cursor_tf)]>>]),
     fill |-> Some([color |-> text.color, rule |-> "NonZero"]),
     stroke |-> None,
     image |-> None]

\* the while loop at lines 665-729 from index i (counted from 1):
\* [panic, ts, ops], the cursor and the output it ends with
RECURSIVE ShowText(_, _, _, _, _, _, _, _)
ShowText(elements, i, has_adjustment, gs_stack, ts_stack, space, color, ops) ==
    IF i > Len(elements)
    THEN [panic |-> FALSE, ts |-> ts_stack, ops |-> ops]
    ELSE IF \/ gs_stack = <<>>
            \/ ts_stack = <<>>
            \/ elements[i].kind # "String"
            \/ ~ConvertColorOk(space, color)
    THEN [panic |-> TRUE, ts |-> ts_stack, ops |-> ops]
    ELSE LET gs == Last(gs_stack)
             ts == Last(ts_stack)
             content == DecodeText(gs.text_encoding, elements[i].str)
             adj_there == has_adjustment /\ FloatOk(elements, i + 1)
             adjustment == IF adj_there THEN elements[i + 1].num ELSE 0
             text == TextOf(content, gs, ConvertColor(space, color))
             advanced == [ts EXCEPT !.cursor_tf = PreTranslate(ts.cursor_tf,
                             <<MeasuredWidth(text) - (adjustment \div 1000), 0>>)]
         IN  ShowText(elements, IF adj_there THEN i + 2 ELSE i + 1,
                      has_adjustment, gs_stack, SetLast(ts_stack, advanced),
                      space, color, Append(ops, TextOp(text, ts.cursor_tf)))

\* "Tj" | "TJ"
OpShowText ==
    \E op \in NextOps :
        /\ Running
        /\ op.operator \in {"Tj", "TJ"}
        /\ UNCHANGED inputVars
        /\ LET has_adjustment == op.operator = "TJ"
               array_ok == Len(op.operands) >= 1
                             /\ op.operands[1].kind = "Array"
               elements == IF has_adjustment THEN op.operands[1].arr
                           ELSE op.operands
               r == ShowText(elements, 1, has_adjustment, graphics_states,
                             text_states, color_space_fill, color_fill,
                             page_ops)
           IN  IF (has_adjustment /\ ~array_ok) \/ r.panic
               THEN Panic(op)
               ELSE /\ text_states' = r.ts
                    /\ page_ops' = r.ops
                    /\ UNCHANGED <<status, graphics_states, colorVars, p,
                                   font_db>>
                    /\ Took(op)

-----------------------------------------------------------------------------
(* Object painting: Do and load_image *)

\* xobject.get(name): the entry of that name, if the dictionary has one
RECURSIVE FindXObject(_, _)
FindXObject(dict, name) ==
    IF dict = <<>> THEN None
    ELSE IF Head(dict).name = name THEN Some(Head(dict))
    ELSE FindXObject(Tail(dict), name)

\* an optional dictionary entry that must be an integer when present
OptI64Ok(entry) == entry = None \/ entry[1].kind = "Integer"

\* a load_image that does not look at the Subtype
LoadImageAnySubtype(resources, name) ==
    IF resources = None THEN "err"
    ELSE LET found == FindXObject(resources[1], name)
         IN  IF found = None THEN "err"
             ELSE LET x == found[1]
                  IN  IF ~x.is_reference \/ ~x.is_stream THEN "err"
                      ELSE IF x.Width = None \/ x.Width[1].kind # "Integer"
                              \/ x.Height = None
                              \/ x.Height[1].kind # "Integer" THEN "err"
                      ELSE "ok"

\* load_image: "ok", "err" (the ? operator returned an Err) or "panic"
\* (array[0] of an empty ColorSpace array)
LoadImage(resources, name) ==
    IF resources = None THEN "err"
    ELSE LET found == FindXObject(resources[1], name)
         IN  IF found = None THEN "err"
             ELSE LET x == found[1]
                  IN  IF ~x.is_reference \/ ~x.is_stream THEN "err"
                      ELSE IF x.Subtype = None \/ x.Subtype[1].kind # "Name"
                              \/ x.Subtype[1].str # "Image" THEN "err"
                      ELSE IF x.Width = None \/ x.Width[1].kind # "Integer"
                              \/ x.Height = None
                              \/ x.Height[1].kind # "Integer" THEN "err"
                      ELSE IF x.ColorSpace # None
                              /\ x.ColorSpace[1].kind = "Array"
                              /\ x.ColorSpace[1].arr = <<>> THEN "panic"
                      ELSE IF x.ColorSpace # None
                              /\ x.ColorSpace[1].kind = "Array"
                              /\ x.ColorSpace[1].arr[1].kind # "Name" THEN "err"
                      ELSE IF ~OptI64Ok(x.BitsPerComponent) THEN "err"
                      ELSE IF x.Filter # None /\ x.Filter[1].kind = "Array"
                              /\ \E i \in 1..Len(x.Filter[1].arr) :
                                     x.Filter[1].arr[i].kind # "Name" THEN "err"
                      ELSE "ok"

Min(a, b) == IF a < b THEN a ELSE b
Max(a, b) == IF a < b THEN b ELSE a
Abs(a) == IF a < 0 THEN -a ELSE a

\* an image operation that carries the placement rectangle as a path too
ImageOpWithPath(name, transform) ==
    LET a == TransformPoint(transform, <<0, 0>>)
        b == TransformPoint(transform, <<1, 1>>)
    IN  [path |-> Some(PathOf(Rectangle(a[1], a[2], b[1] - a[1],
                                        b[2] - a[2]))),
         fill |-> None, stroke |-> None,
         image |-> Some([name |-> name,
                         rect |-> <<Min(a[1], b[1]), Max(a[2], b[2]),
                                    Abs(a[1] - b[1]), Abs(a[2] - b[2])>>])]

\* the PageOp pushed at lines 819-833: the unit square through the transform
ImageOp(name, transform) ==
    LET a == TransformPoint(transform, <<0, 0>>)
        b == TransformPoint(transform, <<1, 1>>)
    IN  [path |-> None, fill |-> None, stroke |-> None,
         image |-> Some([name |-> name,
                         rect |-> <<Min(a[1], b[1]), Max(a[2], b[2]),
                                    Abs(a[1] - b[1]), Abs(a[2] - b[2])>>])]

\* "Do"
OpDo ==
    \E op \in NextOps :
        /\ Running
        /\ op.operator = "Do"
        /\ UNCHANGED inputVars
        /\ IF ~NameOk(op.operands, 1) THEN Panic(op)
           ELSE LET r == LoadImage(xobjects, op.operands[1].str)
                IN  IF r = "panic" \/ (r = "ok" /\ graphics_states = <<>>)
                    THEN Panic(op)
                    ELSE /\ page_ops' =
                              IF r = "ok"
                              THEN Append(page_ops,
                                     ImageOp(op.operands[1].str,
                                             Last(graphics_states).transform))
                              ELSE page_ops
                         /\ UNCHANGED <<status, graphics_states, text_states,
                                        colorVars, p, font_db>>
                         /\ Took(op)

-----------------------------------------------------------------------------
(* The fallback arm *)

\* every token some arm of the match names
ArmTokens ==
    {"c", "h", "l", "m", "re"} \cup PaintingArm
      \cup {"BT", "ET", "Tf", "TL", "Ts", "T*", "Td", "TD", "Tm", "Tj", "TJ"}
      \cup {"cm", "j", "q", "Q", "w"}
      \cup {"cs", "CS", "g", "G", "k", "K", "rg", "RG", "scn", "SCN", "Do"}

\* a fallback arm that also drops the path built so far
OpUnknownResets ==
    \E op \in NextOps :
        /\ Running
        /\ op.operator \notin ArmTokens
        /\ UNCHANGED inputVars
        /\ p' = <<>>
        /\ UNCHANGED <<status, graphics_states, text_states, colorVars,
                       page_ops, font_db>>
        /\ Took(op)

\* "_": log::warn!("unknown op")
OpUnknown ==
    \E op \in NextOps :
        /\ Running
        /\ op.operator \notin ArmTokens
        /\ UNCHANGED inputVars
        /\ UNCHANGED <<status, graphics_states, text_states, colorVars, p,
                       page_ops, font_db>>
        /\ Took(op)

-----------------------------------------------------------------------------
(* Specifications.  Every one starts at the entry of page_ops; they differ  *)
(* in the operators the stream is drawn from and in the page's resources.   *)

\* a page whose content and font table can both be obtained
Obtainable == {[content |-> TRUE, fonts |-> TRUE]}

\* page_ops is about to be called on one of the given pages
InitDocument(ops, table, resources, db, pages) ==
    /\ page \in pages
    /\ call = None
    /\ lock = None
    /\ threads = <<>>
    /\ status = "start"
    /\ alphabet = ops
    /\ fonts = table
    /\ xobjects = resources
    /\ font_db = db
    /\ replay = None
    /\ first = None
    /\ entry_db = <<>>
    /\ consumed = <<>>
    /\ hist = <<>>
    /\ page_ops = <<>>
    /\ graphics_states = <<>>
    /\ text_states = <<>>
    /\ color_space_fill = ""
    /\ color_fill = <<>>
    /\ color_space_stroke = ""
    /\ color_stroke = <<>>
    /\ p = <<>>

InitPage(ops, table, resources, db) ==
    InitDocument(ops, table, resources, db, Obtainable)

\* Graphics state: save, restore, the operators that write the top frame
\* (one of them without its operand) and a painting operator that reads it.
GraphicsOps ==
    {Op("q", <<>>), Op("Q", <<>>),
     Op("cm", <<Integer(2), Integer(0), Integer(0), Integer(2), Integer(5),
                Integer(7)>>),
     Op("w", <<Real(3)>>), Op("w", <<>>), Op("j", <<Integer(1)>>),
     Op("S", <<>>)}

Init == InitPage(GraphicsOps, <<>>, None, <<>>)

Next ==
    \/ BeginPage
    \/ Return
    \/ OpSave
    \/ OpRestore
    \/ OpCm
    \/ OpW
    \/ OpJ
    \/ OpPaint

Spec == Init /\ [][Next]_vars

-----------------------------------------------------------------------------
(* Claims about the graphics-state stack *)

\* C1: once the locals exist, the graphics-state stack holds at least one
\* frame after any sequence of operators (a Q at depth 1 leaves depth 1).
C1_StackNeverEmpty == status # "start" => Len(graphics_states) >= 1

\* the depth the operators consumed[from..to] add to the stack, and whether
\* no prefix of them restores more than it saved
RECURSIVE SavedDepth(_, _)
SavedDepth(from, to) ==
    IF from > to THEN 0
    ELSE SavedDepth(from, to - 1)
         + (CASE consumed[to].operator = "q" -> 1
              [] consumed[to].operator = "Q" -> -1
              [] OTHER -> 0)

Balanced(from, to) ==
    /\ SavedDepth(from, to) = 0
    /\ \A k \in from..to : SavedDepth(from, k) >= 0

\* consumed[i] is a q, consumed[j] a later Q, and the block between them is
\* balanced
MatchedPair(i, j) ==
    /\ i < j
    /\ consumed[i].operator = "q"
    /\ consumed[j].operator = "Q"
    /\ Balanced(i + 1, j - 1)

\* C2: for a balanced block B, after q B Q the graphics-state stack is the
\* stack before the q: the same depth, the same field values in every frame.
C2_SaveRestoreBalanced ==
    \A i, j \in 1..Len(consumed) :
        MatchedPair(i, j) =>
            hist[j + 1].graphics_states = hist[i].graphics_states

\* C2 witness: a matched pair whose block saved again and changed the
\* transform of the frame it worked on
C2_Witness ==
    \E i, j \in 1..Len(consumed) :
        /\ MatchedPair(i, j)
        /\ \E k \in (i + 1)..(j - 1) : consumed[k].operator = "q"
        /\ hist[i].graphics_states # <<>>
        /\ LET before == Last(hist[i].graphics_states)
               inside == Last(hist[j].graphics_states)
           IN  inside.transform # before.transform

-----------------------------------------------------------------------------
(* Claims about malformed operands *)

\* an operator some arm names whose operands that arm cannot read: one is
\* missing or has the wrong type
Malformed(op) ==
    CASE op.operator \in {"m", "l", "Td", "TD"} -> ~FloatsOk(op.operands, 2)
      [] op.operator = "re" -> ~FloatsOk(op.operands, 4)
      [] op.operator \in {"c", "cm", "Tm"} -> ~FloatsOk(op.operands, 6)
      [] op.operator \in {"w", "TL", "Ts"} -> ~FloatOk(op.operands, 1)
      [] op.operator = "j" -> ~I64Ok(op.operands, 1)
      [] op.operator \in {"cs", "CS", "Do"} -> ~NameOk(op.operands, 1)
      [] op.operator = "Tf" ->
            ~(NameOk(op.operands, 1) /\ FloatOk(op.operands, 2))
      [] OTHER -> FALSE

\* the step interprets an operator, and which one
Interprets == consumed' # consumed
Interpreted == consumed'[Len(consumed')]

\* the step leaves the locals of the interpreter and the output as they were
LocalsUnchanged ==
    /\ graphics_states' = graphics_states
    /\ text_states' = text_states
    /\ color_space_fill' = color_space_fill
    /\ color_fill' = color_fill
    /\ color_space_stroke' = color_space_stroke
    /\ color_stroke' = color_stroke
    /\ p' = p
    /\ page_ops' = page_ops

\* C5: an operator with a missing or mistyped operand is skipped: the state
\* and the output stay as they were and interpretation goes on.
C5_MalformedSkipped ==
    [][(Interprets /\ Malformed(Interpreted))
           => (status' = "running" /\ LocalsUnchanged)]_vars

-----------------------------------------------------------------------------
(* Paths: construction, painting, stroke colour, the fallback arm *)

PathOps ==
    {Op("m", <<Integer(1), Integer(2)>>),
     Op("re", <<Integer(10), Integer(10), Integer(100), Integer(100)>>),
     Op("S", <<>>), Op("f", <<>>), Op("F", <<>>),
     Op("RG", <<Integer(1), Integer(0), Integer(0)>>),
     Op("cm", <<Integer(1), Integer(0), Integer(0), Integer(1), Integer(3),
                Integer(4)>>),
     Op("xx", <<Name("a"), Integer(7)>>)}

InitPath == InitPage(PathOps, <<>>, None, <<>>)

NextPath ==
    \/ BeginPage
    \/ Return
    \/ OpM
    \/ OpRe
    \/ OpPaint
    \/ OpStrokeDevice
    \/ OpCm
    \/ OpUnknown

SpecPath == InitPath /\ [][NextPath]_vars

\* the painting tokens among the operators interpreted so far
PaintingTokensSeen ==
    {i \in 1..Len(consumed) : consumed[i].operator \in PaintingTokens}

\* C3: while the stream is interpreted, the number of emitted painting
\* operations is the number of painting tokens met (b, B, b*, B*, f, F, f*,
\* n, s, S); no other operator of these streams emits.
C3_OnePerPaintingToken ==
    status \in {"running", "returned"}
        => Len(page_ops) = Cardinality(PaintingTokensSeen)

\* C4: a painting token moves the whole accumulator into the one operation
\* it emits, under the transform in force, and leaves the accumulator empty.
C4_PaintingFlushesPath ==
    \A k \in PaintingTokensSeen :
        LET before == hist[k]
            after == hist[k + 1]
            tab == PaintingTable(consumed[k].operator)
            segs == IF tab.close THEN Append(before.p, CloseSeg) ELSE before.p
        IN  /\ after.p = <<>>
            /\ after.out_len = before.out_len + 1
            /\ page_ops[after.out_len].path =
                   Some(PathOf(TransformPath(segs,
                        Last(before.graphics_states).transform)))

\* C7: an operator no arm names, whatever its operands, emits nothing and
\* leaves both stacks, both colours, the path accumulator and the output
\* list as they were; interpretation goes on.
C7_UnknownNoEffect ==
    [][(Interprets /\ Interpreted.operator \notin ArmTokens)
           => (status' = "running" /\ LocalsUnchanged)]_vars

\* C7 witness: an unknown operator with operands was interpreted with a
\* path under construction, an operation already emitted and a stroke
\* colour set
C7_Witness ==
    /\ consumed # <<>>
    /\ Last(consumed).operator = "xx"
    /\ Last(consumed).operands # <<>>
    /\ p # <<>>
    /\ page_ops # <<>>
    /\ color_space_stroke = "DeviceRGB"

\* the stream RG 1 0 0, re 10 10 100 100, S
StrokedRectangleStream ==
    <<Op("RG", <<Integer(1), Integer(0), Integer(0)>>),
      Op("re", <<Integer(10), Integer(10), Integer(100), Integer(100)>>),
      Op("S", <<>>)>>

\* C8: that stream, from the default state, returns exactly one operation:
\* stroke present with colour (1,0,0), fill absent, path the rectangle with
\* corners (10,10) and (110,110).
C8_StrokedRectangle ==
    (status = "returned" /\ consumed = StrokedRectangleStream)
        => /\ Len(page_ops) = 1
           /\ page_ops[1].stroke # None
           /\ page_ops[1].stroke[1].color = <<1, 0, 0>>
           /\ page_ops[1].fill = None
           /\ page_ops[1].image = None
           /\ page_ops[1].path # None
           /\ page_ops[1].path[1].segs =
                  <<Seg("move", <<<<10, 10>>>>), Seg("line", <<<<110, 10>>>>),
                    Seg("line", <<<<110, 110>>>>), Seg("line", <<<<10, 110>>>>),
                    Seg("close", <<>>)>>

\* C8 witness: page_ops returned after exactly that stream
C8_Witness == status = "returned" /\ consumed = StrokedRectangleStream

-----------------------------------------------------------------------------
(* Text outside a text object *)

TextOps ==
    {Op("BT", <<>>), Op("ET", <<>>), Op("T*", <<>>),
     Op("Td", <<Integer(1), Integer(2)>>),
     Op("TD", <<Integer(1), Integer(2)>>),
     Op("Tm", <<Integer(1), Integer(0), Integer(0), Integer(1), Integer(5),
                Integer(6)>>),
     Op("Tj", <<String("ab")>>),
     Op("TJ", <<Array(<<String("a"), Integer(-1000), String("b")>>)>>)}

InitText == InitPage(TextOps, <<>>, None, <<>>)

NextText ==
    \/ BeginPage
    \/ Return
    \/ OpBT
    \/ OpET
    \/ OpTStar
    \/ OpTd
    \/ OpTD
    \/ OpTm
    \/ OpShowText

SpecText == InitText /\ [][NextText]_vars

\* C6: T*, Td, TD, Tm, Tj or TJ met while no text object is open is a no-op:
\* nothing is emitted, no state changes, interpretation goes on.
C6_TextOutsideObjectNoOp ==
    [][(/\ Interprets
        /\ Interpreted.operator \in {"T*", "Td", "TD", "Tm", "Tj", "TJ"}
        /\ text_states = <<>>)
           => (status' = "running" /\ LocalsUnchanged)]_vars

-----------------------------------------------------------------------------
(* The output list: paths, text runs and images *)

\* an XObject dictionary with one image
ImageResources ==
    Some(<<[name |-> "Im1", is_reference |-> TRUE, is_stream |-> TRUE,
            Subtype |-> Some(Name("Image")), Width |-> Some(Integer(2)),
            Height |-> Some(Integer(3)), ColorSpace |-> None,
            BitsPerComponent |-> None, Filter |-> None]>>)

EmitOps ==
    {Op("re", <<Integer(0), Integer(0), Integer(1), Integer(1)>>),
     Op("S", <<>>), Op("BT", <<>>), Op("Tj", <<String("ab")>>),
     Op("Do", <<Name("Im1")>>), Op("Do", <<Name("Im9")>>),
     Op("cm", <<Integer(2), Integer(0), Integer(0), Integer(2), Integer(1),
                Integer(1)>>)}

InitEmit == InitPage(EmitOps, <<>>, ImageResources, <<>>)

NextEmit ==
    \/ BeginPage
    \/ Return
    \/ OpRe
    \/ OpPaint
    \/ OpBT
    \/ OpShowText
    \/ OpDo
    \/ OpCm

SpecEmit == InitEmit /\ [][NextEmit]_vars

IsPrefix(s, t) == Len(s) <= Len(t) /\ SubSeq(t, 1, Len(s)) = s

\* what an emitted operation is, and what an operator emits
KindOf(page_op) ==
    IF page_op.image # None THEN "image"
    ELSE IF page_op.path[1].glyphs # <<>> THEN "text"
    ELSE "path"

KindEmitted(operator) ==
    CASE operator \in PaintingArm -> "path"
      [] operator \in {"Tj", "TJ"} -> "text"
      [] operator = "Do" -> "image"
      [] OTHER -> "none"

\* the operations of the k-th interpreted operator lie after those of every
\* earlier operator, and are of the kind that operator emits
InStreamOrder ==
    \A k \in 1..Len(consumed) :
        /\ hist[k].out_len <= hist[k + 1].out_len
        /\ hist[k + 1].out_len <= Len(page_ops)
        /\ \A n \in (hist[k].out_len + 1)..hist[k + 1].out_len :
               KindOf(page_ops[n]) = KindEmitted(consumed[k].operator)

\* C9: every step leaves the old output list as a prefix of the new one, and
\* the operations lie in the order of the operators that emitted them.
C9_AppendOnlyInOrder ==
    [][IsPrefix(page_ops, page_ops') /\ InStreamOrder']_vars

\* C9 witness: a path, a text run and an image were emitted, in that order
C9_Witness ==
    /\ Len(page_ops) = 3
    /\ KindOf(page_ops[1]) = "path"
    /\ KindOf(page_ops[2]) = "text"
    /\ KindOf(page_ops[3]) = "image"

-----------------------------------------------------------------------------
(* Two invocations on the same page, the catalog growing between them *)

\* the caller invokes page_ops again on the same document and page: the
\* same stream and resources, the catalog as the process left it
Again ==
    /\ status = "returned"
    /\ replay = None
    /\ replay' = Some(consumed)
    /\ first' = Some([ops |-> page_ops, db |-> entry_db])
    /\ status' = "start"
    /\ consumed' = <<>>
    /\ hist' = <<>>
    /\ page_ops' = <<>>
    /\ graphics_states' = <<>>
    /\ text_states' = <<>>
    /\ color_space_fill' = ""
    /\ color_fill' = <<>>
    /\ color_space_stroke' = ""
    /\ color_stroke' = <<>>
    /\ p' = <<>>
    /\ UNCHANGED <<alphabet, page, fonts, xobjects, entry_db, call, lock,
                   threads, font_db>>

\* a TrueType program with its own names, as parse_face_info reads it
RawFace(family, post_script, weight) ==
    [wellformed |-> TRUE, families |-> <<family>>,
     post_script |-> Some(post_script), style |-> "Normal", italic |-> FALSE,
     weight |-> weight, stretch |-> "Normal", monospaced |-> FALSE]

\* a font dictionary: with an embedded program, or with descriptor flags only
EmbeddedFont(name, base_font, raw_face) ==
    [name |-> name, BaseFont |-> Some(base_font),
     encoding |-> Some("WinAnsiEncoding"),
     desc |-> Some([FontStretch |-> None, FontWeight |-> None,
                    Flags |-> Some(32), FontFamily |-> None,
                    FontFile2 |-> Some(<<raw_face>>)])]

FlagsFont(name, base_font, flags) ==
    [name |-> name, BaseFont |-> Some(base_font), encoding |-> None,
     desc |-> Some([FontStretch |-> None, FontWeight |-> None,
                    Flags |-> Some(flags), FontFamily |-> None,
                    FontFile2 |-> None])]

\* the page's font table: F1 embeds its program, F2 names a standard font
PageFonts ==
    <<EmbeddedFont("F1", "AbcSans-Bold", RawFace("Abc Sans", "AbcSans-Bold", 700)),
      FlagsFont("F2", "Times-Roman", 2)>>

\* another page's font table: programs with the same PostScript names and
\* other families and weights
OtherPageFonts ==
    <<EmbeddedFont("F7", "AbcSans-Bold", RawFace("Abc Other", "AbcSans-Bold", 400)),
      EmbeddedFont("F8", "Times-Roman", RawFace("Other Times", "Times-Roman", 700))>>

\* a face the catalog holds before any page is interpreted
SystemFace ==
    [families |-> <<"Times">>, post_script_name |-> "Times-Roman",
     style |-> "Normal", weight |-> 400, stretch |-> "Normal",
     monospaced |-> FALSE]

\* another invocation of page_ops, on another page, registers its fonts
\* between the two invocations
OtherPage ==
    /\ status = "returned"
    /\ replay = None
    /\ font_db = LoadFonts(PageFonts, entry_db)
    /\ font_db' = LoadFonts(OtherPageFonts, font_db)
    /\ UNCHANGED <<status, alphabet, consumed, graphics_states, text_states,
                   colorVars, p, page_ops, hist, replay, first, entry_db,
                   call, lock, threads, page, fonts, xobjects>>

TwiceOps ==
    {Op("BT", <<>>), Op("Tf", <<Name("F1"), Integer(12)>>),
     Op("Tf", <<Name("F2"), Integer(10)>>), Op("Tj", <<String("ab")>>)}

InitTwice ==
    \E db \in {<<>>, <<SystemFace>>} : InitPage(TwiceOps, PageFonts, None, db)

NextTwice ==
    \/ BeginPage
    \/ Return
    \/ OpBT
    \/ OpTf
    \/ OpShowText
    \/ OtherPage
    \/ Again

SpecTwice == InitTwice /\ [][NextTwice]_vars

\* every font a Tf of the stream names, when the table gives it a BaseFont,
\* has a face of that PostScript name in the catalog db
FontsRegistered(db, stream) ==
    \A i \in 1..Len(stream) :
        (stream[i].operator = "Tf" /\ NameOk(stream[i].operands, 1)) =>
            LET found == FindFont(FontTable, stream[i].operands[1].str)
            IN  (found # None /\ found[1].BaseFont # None)
                    => FindFace(db, found[1].BaseFont[1]) # None

\* C10: the second invocation on the same stream and resources returns the
\* operation list the first one returned, whatever was registered in between,
\* when every font the stream uses was in the catalog before the first.
C10_SameOutputTwice ==
    (replay # None /\ status = "returned"
        /\ FontsRegistered(first[1].db, consumed))
        => page_ops = first[1].ops

\* C10 witness: the second invocation has returned a shown text run set in a
\* font that was registered before the first, and the catalog holds a later
\* face of the same PostScript name
C10_Witness ==
    /\ replay # None
    /\ status = "returned"
    /\ FontsRegistered(first[1].db, consumed)
    /\ \E i \in 1..Len(consumed) : consumed[i].operator = "Tf"
    /\ page_ops # <<>>
    /\ \E i, j \in 1..Len(font_db) :
           /\ i < j
           /\ font_db[i].post_script_name = "Times-Roman"
           /\ font_db[j].post_script_name = "Times-Roman"
           /\ font_db[i].families # font_db[j].families

-----------------------------------------------------------------------------
(* Showing text: the cursor after TJ *)

ShowOps ==
    {Op("BT", <<>>), Op("Tf", <<Name("F1"), Integer(12)>>),
     Op("Tm", <<Integer(2), Integer(0), Integer(0), Integer(3), Integer(5),
                Integer(6)>>),
     Op("Td", <<Integer(1), Integer(2)>>),
     Op("TJ", <<Array(<<String("a"), Integer(-1000), String("bc")>>)>>),
     Op("TJ", <<Array(<<String("ab"), Integer(2000), String("c")>>)>>)}

InitShow == InitPage(ShowOps, <<>>, None, <<>>)

NextShow ==
    \/ BeginPage
    \/ Return
    \/ OpBT
    \/ OpTf
    \/ OpTm
    \/ OpTd
    \/ OpShowText

SpecShow == InitShow /\ [][NextShow]_vars

\* the k-th operator is a TJ over [(s1), adj, (s2)] met inside a text object
AdjustedPair(k) ==
    /\ consumed[k].operator = "TJ"
    /\ Len(consumed[k].operands) = 1
    /\ consumed[k].operands[1].kind = "Array"
    /\ LET a == consumed[k].operands[1].arr
       IN  /\ Len(a) = 3
           /\ a[1].kind = "String"
           /\ a[2].kind \in {"Integer", "Real"}
           /\ a[3].kind = "String"
    /\ hist[k].text_states # <<>>
    /\ hist[k].graphics_states # <<>>

\* the advance of the run s shown under the graphics state gs
WidthOf(s, gs) ==
    MeasuredWidth(TextOf(DecodeText(gs.text_encoding, s), gs, <<0, 0, 0>>))

\* the x advance the k-th operator, a TJ over [(s1), adj, (s2)], should make
AdvanceOf(k) ==
    LET a == consumed[k].operands[1].arr
        gs == Last(hist[k].graphics_states)
    IN  WidthOf(a[1].str, gs) - (a[2].num \div 1000) + WidthOf(a[3].str, gs)

\* C11: after TJ [(s1) adj (s2)] the cursor transform is the one before it
\* moved along its own x axis by width(s1) - adj/1000 + width(s2); the line
\* transform is the one before it.
C11_AdjustedAdvance ==
    \A k \in 1..Len(consumed) :
        AdjustedPair(k) =>
            LET before == Last(hist[k].text_states)
                after == Last(hist[k + 1].text_states)
                t == before.cursor_tf
                dx == AdvanceOf(k)
            IN  /\ after.cursor_tf = <<t[1], t[2], t[3], t[4],
                                       t[5] + dx * t[1], t[6] + dx * t[2]>>
                /\ after.line_tf = before.line_tf

\* C11 witness: a TJ with a non-zero adjustment and non-zero widths was
\* shown under a scaling cursor transform
C11_Witness ==
    \E k \in 1..Len(consumed) :
        /\ AdjustedPair(k)
        /\ Last(hist[k].text_states).cursor_tf[1] = 2
        /\ Last(hist[k].graphics_states).text_size = 12
        /\ consumed[k].operands[1].arr[2].num = 2000
        /\ Last(hist[k + 1].text_states).cursor_tf[5] = 73

-----------------------------------------------------------------------------
(* The current transformation matrix *)

\* the matrix a well-formed cm carries
MatrixOf(op) == [i \in 1..6 |-> Num(op.operands, i)]

\* C12: cm concatenates: the transform of the top frame after it is its
\* matrix composed with the transform the frame had before it.
C12_CmConcatenates ==
    \A k \in 1..Len(consumed) :
        (/\ consumed[k].operator = "cm"
         /\ FloatsOk(consumed[k].operands, 6)
         /\ hist[k].graphics_states # <<>>)
            => Last(hist[k + 1].graphics_states).transform
                 = Then(MatrixOf(consumed[k]),
                        Last(hist[k].graphics_states).transform)

-----------------------------------------------------------------------------
(* The fill and the stroke colour *)

ColorOps ==
    {Op("rg", <<Integer(1), Integer(0), Integer(0)>>),
     Op("G", <<Integer(1)>>),
     Op("scn", <<Integer(0), Integer(1), Integer(0)>>),
     Op("re", <<Integer(0), Integer(0), Integer(1), Integer(1)>>),
     Op("B", <<>>), Op("q", <<>>), Op("Q", <<>>),
     Op("BT", <<>>), Op("Tj", <<String("a")>>)}

InitColor == InitPage(ColorOps, <<>>, None, <<>>)

NextColor ==
    \/ BeginPage
    \/ Return
    \/ OpFillDevice
    \/ OpStrokeDevice
    \/ OpFillColor
    \/ OpRe
    \/ OpPaint
    \/ OpSave
    \/ OpRestore
    \/ OpBT
    \/ OpShowText

SpecColor == InitColor /\ [][NextColor]_vars

\* the index of the last operator before the k-th whose token is in tokens,
\* 0 when there is none
LastBefore(k, tokens) ==
    LET js == {j \in 1..(k - 1) : consumed[j].operator \in tokens}
    IN  IF js = {} THEN 0 ELSE CHOOSE j \in js : \A i \in js : i <= j

\* the colour the stream has set before its k-th operator: the space of the
\* last operator that names one, the components of the last that carries
\* them, black when there was neither
ColorSetBefore(k, device, space_only, comps_only) ==
    LET s == LastBefore(k, device \cup {space_only})
        c == LastBefore(k, device \cup {comps_only})
    IN  IF s = 0 /\ c = 0 THEN <<0, 0, 0>>
        ELSE ConvertColor(
                IF s = 0 THEN "DeviceGray"
                ELSE IF consumed[s].operator = space_only
                     THEN consumed[s].operands[1].str
                     ELSE DeviceSpace(consumed[s].operator),
                IF c = 0 THEN <<Real(0)>> ELSE consumed[c].operands)

FillSetBefore(k) == ColorSetBefore(k, {"g", "k", "rg"}, "cs", "scn")
StrokeSetBefore(k) == ColorSetBefore(k, {"G", "K", "RG"}, "CS", "SCN")

\* the operations the k-th operator appended
EmittedBy(k) == (hist[k].out_len + 1)..hist[k + 1].out_len

\* C13: every operation a painting or show-text operator emits carries the
\* colour its kind was last set to, black before any colour operator.
C13_ColorPersists ==
    \A k \in 1..Len(consumed) :
        consumed[k].operator \in PaintingTokens \cup {"Tj", "TJ"} =>
            \A n \in EmittedBy(k) :
                /\ page_ops[n].fill # None
                     => page_ops[n].fill[1].color = FillSetBefore(k)
                /\ page_ops[n].stroke # None
                     => page_ops[n].stroke[1].color = StrokeSetBefore(k)

\* C13 witness: a fill-and-stroke painted after rg, G and other operators in
\* between, and a run shown in the colour set three operators earlier
C13_Witness ==
    \/ \E k \in 3..Len(consumed) :
          /\ consumed[k].operator = "B"
          /\ EmittedBy(k) # {}
          /\ LastBefore(k, {"rg"}) # 0
          /\ LastBefore(k, {"G"}) # 0
          /\ LastBefore(k, {"q", "Q", "re", "BT"}) > LastBefore(k, {"rg", "G"})
          /\ page_ops[hist[k + 1].out_len].fill[1].color = <<1, 0, 0>>
          /\ page_ops[hist[k + 1].out_len].stroke[1].color = <<1, 1, 1>>
    \/ \E k \in 3..Len(consumed) :
          /\ consumed[k].operator = "Tj"
          /\ EmittedBy(k) # {}
          /\ LastBefore(k, {"rg"}) = k - 3
          /\ page_ops[hist[k + 1].out_len].fill[1].color = <<1, 0, 0>>

-----------------------------------------------------------------------------
(* The text-state stack *)

\* the BT tokens among the first k operators minus the ET tokens among them
\* that had a text object to close
RECURSIVE OpenTextObjects(_)
OpenTextObjects(k) ==
    IF k = 0 THEN 0
    ELSE LET before == OpenTextObjects(k - 1)
         IN  CASE consumed[k].operator = "BT" -> before + 1
               [] consumed[k].operator = "ET" /\ before > 0 -> before - 1
               [] OTHER -> before

\* C14: after every operator the depth of the text-state stack is the number
\* of BT tokens so far minus the number of ET tokens that closed a text
\* object; an ET with none open leaves the stack empty and does not fault.
C14_TextDepthTracksNesting ==
    /\ \A k \in 1..Len(hist) :
          Len(hist[k].text_states) = OpenTextObjects(k - 1)
    /\ \A k \in 1..Len(consumed) :
          (consumed[k].operator = "ET" /\ hist[k].text_states = <<>>)
              => /\ hist[k + 1].text_states = <<>>
                 /\ ~(status = "panicked" /\ k = Len(consumed))

\* C14 witness: an ET met with no text object open, then two nested BT, and
\* the interpreter still running
C14_Witness ==
    /\ status = "running"
    /\ \E k \in 1..Len(consumed) :
          /\ consumed[k].operator = "ET"
          /\ hist[k].text_states = <<>>
          /\ \E j \in (k + 1)..Len(hist) : Len(hist[j].text_states) = 2
    /\ \E k \in 1..Len(consumed) :
          /\ consumed[k].operator = "ET"
          /\ Len(hist[k].text_states) = 2

-----------------------------------------------------------------------------
(* Entering page_ops: the content and the font table *)

EntryOps ==
    {Op("BT", <<>>), Op("Tf", <<Name("F1"), Integer(12)>>),
     Op("Tj", <<String("ab")>>), Op("w", <<Integer(2)>>), Op("w", <<>>)}

InitEntry ==
    InitDocument(EntryOps, PageFonts, None, <<>>,
                 [content : BOOLEAN, fonts : BOOLEAN])

NextEntry ==
    \/ BeginPage
    \/ NoContent
    \/ Return
    \/ OpBT
    \/ OpTf
    \/ OpShowText
    \/ OpW

SpecEntry == InitEntry /\ [][NextEntry]_vars

\* page_ops is over without the content having been obtained: the list it
\* returned is empty and no operator was interpreted
EmptyWithoutContent ==
    (~page.content /\ status # "start")
        => (status = "returned" /\ page_ops = <<>> /\ consumed = <<>>)

\* a font table that could not be obtained is an empty one: nothing is
\* registered, and every Tf leaves the default attributes
EmptyTableWithoutFonts ==
    (~page.fonts /\ status # "start")
        => /\ font_db = entry_db
           /\ \A k \in 1..Len(hist) :
                 \A n \in 1..Len(hist[k].graphics_states) :
                     hist[k].graphics_states[n].text_attrs = DefaultAttrs

\* C15: without the content the returned list is empty; nothing else ends the
\* interpretation before the end of the stream, a missing font table
\* included.
C15_OnlyContentFailureEnds ==
    /\ EmptyWithoutContent
    /\ EmptyTableWithoutFonts
    /\ page.content => status # "panicked"

-----------------------------------------------------------------------------
(* Do: images that cannot be resolved *)

\* an entry of the XObject dictionary and the object it refers to
XObject(name, is_reference, is_stream, subtype, width, height) ==
    [name |-> name, is_reference |-> is_reference, is_stream |-> is_stream,
     Subtype |-> subtype, Width |-> width, Height |-> height,
     ColorSpace |-> None, BitsPerComponent |-> None, Filter |-> None]

\* one image, and one entry for every way the lookup can fail
BrokenResources ==
    Some(<<XObject("Im1", TRUE, TRUE, Some(Name("Image")), Some(Integer(2)),
                   Some(Integer(3))),
           XObject("NoRef", FALSE, TRUE, Some(Name("Image")),
                   Some(Integer(2)), Some(Integer(3))),
           XObject("NoStream", TRUE, FALSE, Some(Name("Image")),
                   Some(Integer(2)), Some(Integer(3))),
           XObject("Form", TRUE, TRUE, Some(Name("Form")), Some(Integer(2)),
                   Some(Integer(3))),
           XObject("NoWidth", TRUE, TRUE, Some(Name("Image")), None,
                   Some(Integer(3))),
           XObject("RealHeight", TRUE, TRUE, Some(Name("Image")),
                   Some(Integer(2)), Some(Real(3)))>>)

DoOps ==
    {Op("Do", <<Name("Im1")>>), Op("Do", <<Name("Absent")>>),
     Op("Do", <<Name("NoRef")>>), Op("Do", <<Name("NoStream")>>),
     Op("Do", <<Name("Form")>>), Op("Do", <<Name("NoWidth")>>),
     Op("Do", <<Name("RealHeight")>>),
     Op("cm", <<Integer(2), Integer(0), Integer(0), Integer(2), Integer(1),
                Integer(1)>>)}

InitDo ==
    \E resources \in {None, BrokenResources} :
        InitPage(DoOps, <<>>, resources, <<>>)

NextDo ==
    \/ BeginPage
    \/ Return
    \/ OpDo
    \/ OpCm

SpecDo == InitDo /\ [][NextDo]_vars

\* the image a Do names cannot be resolved: no XObject dictionary, no entry
\* of that name, an entry that is no reference, a target that is no stream,
\* a Subtype other than Image, a Width or Height missing or mistyped
Unresolvable(op) ==
    \/ xobjects = None
    \/ \A i \in 1..Len(xobjects[1]) :
          xobjects[1][i].name = op.operands[1].str =>
              \/ ~xobjects[1][i].is_reference
              \/ ~xobjects[1][i].is_stream
              \/ xobjects[1][i].Subtype # Some(Name("Image"))
              \/ xobjects[1][i].Width = None
              \/ xobjects[1][i].Height = None
              \/ xobjects[1][i].Width[1].kind # "Integer"
              \/ xobjects[1][i].Height[1].kind # "Integer"

\* C16: a Do whose image cannot be resolved emits nothing and changes no
\* state, and the interpretation goes on.
C16_UnresolvedImageDropped ==
    [][(/\ Interprets
        /\ Interpreted.operator = "Do"
        /\ NameOk(Interpreted.operands, 1)
        /\ Unresolvable(Interpreted))
           => (status' = "running" /\ LocalsUnchanged)]_vars

\* C16 witness: a Do on an entry of another Subtype emitted nothing, and the
\* Do after it placed its image
C16_Witness ==
    \E k \in 1..(Len(consumed) - 1) :
        /\ consumed[k] = Op("Do", <<Name("Form")>>)
        /\ xobjects # None
        /\ hist[k + 1] = hist[k]
        /\ consumed[k + 1] = Op("Do", <<Name("Im1")>>)
        /\ hist[k + 2].out_len = hist[k + 1].out_len + 1

-----------------------------------------------------------------------------
(* convert_color called on its own *)

\* the longest component list a call is given
MaxComponents == 4

SpaceNames == {"DeviceGray", "DeviceRGB", "DeviceCMYK", "Pattern", "ICCBased"}

\* every list of at most n components, each 0 or 1, an Integer or a Real
RECURSIVE ComponentLists(_)
ComponentLists(n) ==
    IF n = 0 THEN {<<>>}
    ELSE LET shorter == ComponentLists(n - 1)
         IN  shorter \cup
             {Append(c, x) : c \in {s \in shorter : Len(s) = n - 1},
                             x \in {Integer(0), Integer(1), Real(1)}}

\* convert_color(color_space, color): whether it panicked, and the Color
ConvertColorCall ==
    /\ status = "call"
    /\ call[1].result = None
    /\ call' = Some([call[1] EXCEPT !.result =
            IF ConvertColorOk(call[1].color_space, call[1].color)
            THEN Some([panic |-> FALSE,
                       rgb |-> ConvertColor(call[1].color_space, call[1].color)])
            ELSE Some([panic |-> TRUE, rgb |-> <<>>])])
    /\ UNCHANGED <<status, alphabet, consumed, graphics_states, text_states,
                   colorVars, p, page_ops, hist, replay, first, entry_db,
                   lock, threads, page, fonts, xobjects, font_db>>

InitResolve ==
    /\ status = "call"
    /\ \E space \in SpaceNames, color \in ComponentLists(MaxComponents) :
          call = Some([color_space |-> space, color |-> color,
                       result |-> None])
    /\ lock = None
    /\ threads = <<>>
    /\ page \in Obtainable
    /\ alphabet = {}
    /\ fonts = <<>>
    /\ xobjects = None
    /\ font_db = <<>>
    /\ replay = None
    /\ first = None
    /\ entry_db = <<>>
    /\ consumed = <<>>
    /\ hist = <<>>
    /\ page_ops = <<>>
    /\ graphics_states = <<>>
    /\ text_states = <<>>
    /\ color_space_fill = ""
    /\ color_fill = <<>>
    /\ color_space_stroke = ""
    /\ color_stroke = <<>>
    /\ p = <<>>

NextResolve == ConvertColorCall

SpecResolve == InitResolve /\ [][NextResolve]_vars

\* the call is over, on that space and that many components
Resolved(space, n) ==
    /\ call # None
    /\ call[1].result # None
    /\ call[1].color_space = space
    /\ Len(call[1].color) = n

\* C17: DeviceGray with one component v resolves to (v, v, v) and DeviceRGB
\* with (r, g, b) to exactly (r, g, b).
C17_GrayAndRgb ==
    /\ Resolved("DeviceGray", 1) =>
          call[1].result[1] =
              [panic |-> FALSE,
               rgb |-> <<call[1].color[1].num, call[1].color[1].num,
                         call[1].color[1].num>>]
    /\ Resolved("DeviceRGB", 3) =>
          call[1].result[1] =
              [panic |-> FALSE,
               rgb |-> <<call[1].color[1].num, call[1].color[2].num,
                         call[1].color[3].num>>]

\* C17 witness: a DeviceRGB call with three different-looking components is
\* over
C17_Witness ==
    /\ Resolved("DeviceRGB", 3)
    /\ call[1].color = <<Integer(1), Integer(0), Real(1)>>
    /\ call[1].result[1].rgb = <<1, 0, 1>>

\* C18: DeviceCMYK with three components does not fail and resolves as the
\* same cyan, magenta and yellow with K = 0; with four, the fourth is K.
C18_CmykThreeOrFour ==
    /\ (Resolved("DeviceCMYK", 3) /\ FloatsOk(call[1].color, 3)) =>
          call[1].result[1] =
              [panic |-> FALSE,
               rgb |-> CmykToRgb(call[1].color[1].num, call[1].color[2].num,
                                 call[1].color[3].num, 0)]
    /\ (Resolved("DeviceCMYK", 4) /\ FloatsOk(call[1].color, 4)) =>
          call[1].result[1] =
              [panic |-> FALSE,
               rgb |-> CmykToRgb(call[1].color[1].num, call[1].color[2].num,
                                 call[1].color[3].num, call[1].color[4].num)]

\* C18 witness: a three-component call is over, and so is (in another run) a
\* four-component call whose K changes the result
C18_Witness ==
    \/ /\ Resolved("DeviceCMYK", 3)
       /\ call[1].color = <<Integer(1), Integer(0), Integer(0)>>
       /\ call[1].result[1].rgb = <<0, 255, 255>>
    \/ /\ Resolved("DeviceCMYK", 4)
       /\ call[1].color = <<Integer(0), Integer(0), Integer(0), Integer(1)>>
       /\ call[1].result[1].rgb = <<0, 0, 0>>

-----------------------------------------------------------------------------
(* Colour spaces convert_color does not know *)

DeviceSpaces == {"DeviceGray", "DeviceRGB", "DeviceCMYK"}

OtherSpaceOps ==
    {Op("cs", <<Name("Pattern")>>), Op("CS", <<Name("ICCBased")>>),
     Op("scn", <<>>), Op("scn", <<Name("P1")>>),
     Op("re", <<Integer(0), Integer(0), Integer(1), Integer(1)>>),
     Op("f", <<>>), Op("S", <<>>)}

\* convert_color called on its own, or by the painting arm of page_ops
InitOtherSpace ==
    \/ InitResolve
    \/ InitPage(OtherSpaceOps, <<>>, None, <<>>)

NextOtherSpace ==
    \/ ConvertColorCall
    \/ BeginPage
    \/ Return
    \/ OpFillColorSpace
    \/ OpStrokeColorSpace
    \/ OpFillColor
    \/ OpRe
    \/ OpPaint

SpecOtherSpace == InitOtherSpace /\ [][NextOtherSpace]_vars

\* the k-th operator paints with a colour whose space was last named by
\* cs (for f) or CS (for S), and is none of the device spaces
PaintsInOtherSpace(k) ==
    LET named == IF consumed[k].operator = "f"
                 THEN LastBefore(k, {"cs", "g", "k", "rg"})
                 ELSE LastBefore(k, {"CS", "G", "K", "RG"})
    IN  /\ consumed[k].operator \in {"f", "S"}
        /\ named # 0
        /\ consumed[named].operator \in {"cs", "CS"}
        /\ consumed[named].operands[1].str \notin DeviceSpaces

\* C19: in a space other than DeviceGray, DeviceRGB and DeviceCMYK every
\* component list, the empty one included, resolves to black without a
\* failure, and a painting operator in such a space emits its operation.
C19_OtherSpaceIsBlack ==
    /\ (call # None /\ call[1].result # None
            /\ call[1].color_space \notin DeviceSpaces)
          => call[1].result[1] = [panic |-> FALSE, rgb |-> <<0, 0, 0>>]
    /\ \A k \in 1..Len(consumed) :
          PaintsInOtherSpace(k) =>
              /\ hist[k + 1].out_len = hist[k].out_len + 1
              /\ LET op == page_ops[hist[k + 1].out_len]
                 IN  /\ op.fill # None => op.fill[1].color = <<0, 0, 0>>
                     /\ op.stroke # None => op.stroke[1].color = <<0, 0, 0>>

\* C19 witness: a fill painted under cs /Pattern after scn left no component
C19_Witness ==
    \E k \in 4..Len(consumed) :
        /\ PaintsInOtherSpace(k)
        /\ consumed[k].operator = "f"
        /\ consumed[k - 1].operator = "re"
        /\ LastBefore(k, {"scn"}) # 0
        /\ consumed[LastBefore(k, {"scn"})].operands = <<>>
        /\ page_ops[hist[k + 1].out_len].fill[1].color = <<0, 0, 0>>

-----------------------------------------------------------------------------
(* Registering the page's fonts again *)

\* C20: the registration at the start of a second interpretation of the page
\* adds no face: the catalog after it is the catalog before it.
C20_RegistrationIdempotent ==
    [][(status = "start" /\ replay # None /\ status' = "running")
           => font_db' = font_db]_vars

-----------------------------------------------------------------------------
(* Several invocations of page_ops at once: the lock of the font catalog *)

\* the invocations running at once, and the Tf operators each interprets
MaxPages == 2
MaxLookups == 2

Invocations == 1..MaxPages

\* the font table of the page an invocation interprets
TableOf(t) == IF t = 1 THEN PageFonts ELSE OtherPageFonts

\* where an invocation touches the catalog: the body of load_fonts, a
\* push_face_info under way, the loop over db().faces() and its result
Accessing == {"load", "pushing", "lookup", "looked"}

At(t, pc) == threads[t].pc = pc
Goto(t, pc) == threads' = [threads EXCEPT ![t].pc = pc]

\* the interpreter variables, left alone by the steps of the invocations
SequentialVars ==
    <<status, alphabet, consumed, graphics_states, text_states, colorVars, p,
      page_ops, hist, replay, first, entry_db, call, page, fonts, xobjects>>

\* line 165: font_system().write() returns the guard once no other holds it
LoadFontsLock ==
    \E t \in Invocations :
        /\ At(t, "enter")
        /\ lock = None
        /\ lock' = Some(t)
        /\ threads' = [threads EXCEPT ![t].pc = "load",
                          ![t].pending = LoadFonts(TableOf(t), <<>>)]
        /\ UNCHANGED <<SequentialVars, font_db>>

\* line 227: push_face_info begins; until it returns the new entry is not
\* whole
PushBegin ==
    \E t \in Invocations :
        /\ At(t, "load")
        /\ threads[t].pending # <<>>
        /\ Goto(t, "pushing")
        /\ UNCHANGED <<SequentialVars, lock, font_db>>

\* line 227: push_face_info returns, the face is in the catalog
PushEnd ==
    \E t \in Invocations :
        /\ At(t, "pushing")
        /\ font_db' = Append(font_db, Head(threads[t].pending))
        /\ threads' = [threads EXCEPT ![t].pc = "load",
                          ![t].pending = Tail(threads[t].pending)]
        /\ UNCHANGED <<SequentialVars, lock>>

\* line 247: load_fonts returns and drops the guard
LoadFontsUnlock ==
    \E t \in Invocations :
        /\ At(t, "load")
        /\ threads[t].pending = <<>>
        /\ lock = Some(t)
        /\ lock' = None
        /\ Goto(t, "ops")
        /\ UNCHANGED <<SequentialVars, font_db>>

\* a Tf that reads the catalog without taking the guard
TfWithoutLock ==
    \E t \in Invocations :
        /\ At(t, "ops")
        /\ threads[t].lookups < MaxLookups
        /\ Goto(t, "lookup")
        /\ UNCHANGED <<SequentialVars, lock, font_db>>

\* lines 546-548: Tf on a font with a BaseFont takes the guard
TfLock ==
    \E t \in Invocations :
        /\ At(t, "ops")
        /\ threads[t].lookups < MaxLookups
        /\ lock = None
        /\ lock' = Some(t)
        /\ Goto(t, "lookup")
        /\ UNCHANGED <<SequentialVars, font_db>>

\* lines 549-565: the loop over db().faces()
TfFind ==
    \E t \in Invocations :
        /\ At(t, "lookup")
        /\ threads' = [threads EXCEPT ![t].pc = "looked",
                          ![t].found = FindFace(font_db, "Times-Roman")]
        /\ UNCHANGED <<SequentialVars, lock, font_db>>

\* a Tf whose guard outlives the block: the lookup ends and the lock is kept
TfUnlockKeepsGuard ==
    \E t \in Invocations :
        /\ At(t, "looked")
        /\ threads' = [threads EXCEPT ![t].pc = "ops",
                          ![t].lookups = threads[t].lookups + 1]
        /\ UNCHANGED <<SequentialVars, lock, font_db>>

\* line 571: the block ends and drops the guard
TfUnlock ==
    \E t \in Invocations :
        /\ At(t, "looked")
        /\ lock' = IF lock = Some(t) THEN None ELSE lock
        /\ threads' = [threads EXCEPT ![t].pc = "ops",
                          ![t].lookups = threads[t].lookups + 1]
        /\ UNCHANGED <<SequentialVars, font_db>>

\* line 847: the invocation returns
PageReturn ==
    \E t \in Invocations :
        /\ At(t, "ops")
        /\ Goto(t, "done")
        /\ UNCHANGED <<SequentialVars, lock, font_db>>

InitPool ==
    /\ status = "pool"
    /\ lock = None
    /\ threads = [t \in Invocations |->
                    [pc |-> "enter", pending |-> <<>>, lookups |-> 0,
                     found |-> None]]
    /\ font_db \in {<<>>, <<SystemFace>>}
    /\ call = None
    /\ page \in Obtainable
    /\ alphabet = {}
    /\ fonts = <<>>
    /\ xobjects = None
    /\ replay = None
    /\ first = None
    /\ entry_db = <<>>
    /\ consumed = <<>>
    /\ hist = <<>>
    /\ page_ops = <<>>
    /\ graphics_states = <<>>
    /\ text_states = <<>>
    /\ color_space_fill = ""
    /\ color_fill = <<>>
    /\ color_space_stroke = ""
    /\ color_stroke = <<>>
    /\ p = <<>>

NextPool ==
    \/ LoadFontsLock
    \/ PushBegin
    \/ PushEnd
    \/ LoadFontsUnlock
    \/ TfLock
    \/ TfFind
    \/ TfUnlock
    \/ PageReturn

SpecPool == InitPool /\ [][NextPool]_vars

\* C21: an invocation that reads or writes the catalog holds its lock, so at
\* most one does at a time and none reads while a face is being pushed.
C21_CatalogExclusive ==
    status = "pool" =>
        /\ \A t \in Invocations :
              threads[t].pc \in Accessing => lock = Some(t)
        /\ \A t, u \in Invocations :
              (threads[t].pc \in Accessing /\ threads[u].pc \in Accessing)
                  => t = u
        /\ \A t, u \in Invocations :
              threads[t].pc = "pushing" => threads[u].pc # "lookup"

\* C21 witness: one invocation is pushing a face while the other, past its
\* own registration, is about to look a font up
C21_Witness ==
    /\ status = "pool"
    /\ \E t, u \in Invocations :
          /\ threads[t].pc = "pushing"
          /\ threads[u].pc = "ops"
          /\ threads[u].lookups < MaxLookups

-----------------------------------------------------------------------------
(* load_fonts on one embedded program: parse_face_info and its fallback *)

\* the programs a font embeds: well-formed or not, with or without a family
\* and a PostScript name of their own
RawFaces ==
    [wellformed : BOOLEAN, families : {<<>>, <<"Abc Sans">>},
     post_script : {None, Some("AbcSans-Bold")}, style : {"Normal", "Oblique"},
     italic : BOOLEAN, weight : {400, 700}, stretch : {"Normal"},
     monospaced : BOOLEAN]

\* the font dictionary around a program, with a BaseFont or without
FontAround(raw_face, base_font) ==
    [EmbeddedFont("F1", "", raw_face) EXCEPT !.BaseFont = base_font]

\* load_fonts on a table of that one font, and what parse_face_info returned
\* to it
LoadFontsCall ==
    /\ status = "call"
    /\ call # None
    /\ call[1].result = None
    /\ call' = Some([call[1] EXCEPT !.result =
                        Some(ParseFaceInfo(call[1].raw_face, call[1].font))])
    /\ font_db' = LoadFonts(<<call[1].font>>, font_db)
    /\ UNCHANGED <<status, alphabet, consumed, graphics_states, text_states,
                   colorVars, p, page_ops, hist, replay, first, entry_db,
                   lock, threads, page, fonts, xobjects>>

InitFace ==
    /\ status = "call"
    /\ \E raw_face \in RawFaces, base_font \in {None, Some("Base-Font")} :
          call = Some([raw_face |-> raw_face,
                       font |-> FontAround(raw_face, base_font),
                       result |-> None])
    /\ lock = None
    /\ threads = <<>>
    /\ page \in Obtainable
    /\ alphabet = {}
    /\ fonts = <<>>
    /\ xobjects = None
    /\ font_db = <<>>
    /\ replay = None
    /\ first = None
    /\ entry_db = <<>>
    /\ consumed = <<>>
    /\ hist = <<>>
    /\ page_ops = <<>>
    /\ graphics_states = <<>>
    /\ text_states = <<>>
    /\ color_space_fill = ""
    /\ color_fill = <<>>
    /\ color_space_stroke = ""
    /\ color_stroke = <<>>
    /\ p = <<>>

NextFace == LoadFontsCall

SpecFace == InitFace /\ [][NextFace]_vars

\* the program has no family or no PostScript name the parser can use
Nameless(raw_face) == raw_face.families = <<>> \/ raw_face.post_script = None

\* C22: a well-formed program without usable names is registered under the
\* font's BaseFont, as family and as PostScript name; it fails with
\* UnnamedFont only when there is no BaseFont either; a malformed program
\* fails with MalformedFont and the fallback is not consulted.
C22_FallbackNames ==
    (call # None /\ call[1].result # None) =>
        LET raw_face == call[1].raw_face
            base_font == call[1].font.BaseFont
            r == call[1].result[1]
        IN  /\ (raw_face.wellformed /\ Nameless(raw_face) /\ base_font # None)
                  => /\ r.err = ""
                     /\ r.info[1].families = base_font
                     /\ r.info[1].post_script_name = base_font[1]
                     /\ font_db = r.info
            /\ r.err = "UnnamedFont"
                  <=> (raw_face.wellformed /\ Nameless(raw_face)
                          /\ base_font = None)
            /\ ~raw_face.wellformed
                  => /\ r.err = "MalformedFont"
                     /\ ~r.consulted
                     /\ font_db = <<>>

\* C22 witness: a program with a family and no PostScript name was registered
\* under the BaseFont
C22_Witness ==
    /\ call # None
    /\ call[1].result # None
    /\ call[1].raw_face.wellformed
    /\ call[1].raw_face.families # <<>>
    /\ call[1].raw_face.post_script = None
    /\ Len(font_db) = 1
    /\ font_db[1].families = <<"Base-Font">>
    /\ font_db[1].post_script_name = "Base-Font"

-----------------------------------------------------------------------------
(* Tf: the attributes the FontDescriptor gives *)

\* a font without a program and without a FontFamily, its descriptor holding
\* the given Flags and FontWeight
DescribedFont(name, flags, weight) ==
    [name |-> name, BaseFont |-> Some("Helvetica"), encoding |-> None,
     desc |-> Some([FontStretch |-> None, FontWeight |-> weight,
                    Flags |-> flags, FontFamily |-> None,
                    FontFile2 |-> None])]

\* one font for every combination of the fixed-pitch (1), serif (2) and
\* script (8) bits that tells the priorities apart; 32 is the nonsymbolic bit
FlagFonts ==
    <<DescribedFont("F1", Some(1), None), DescribedFont("F2", Some(2), None),
      DescribedFont("F3", Some(8), None), DescribedFont("F4", Some(32), None),
      DescribedFont("F5", Some(11), None), DescribedFont("F6", Some(10), None)>>

FlagOps ==
    {Op("Tf", <<Name("F1"), Integer(12)>>), Op("Tf", <<Name("F2"), Integer(12)>>),
     Op("Tf", <<Name("F3"), Integer(12)>>), Op("Tf", <<Name("F4"), Integer(12)>>),
     Op("Tf", <<Name("F5"), Integer(12)>>), Op("Tf", <<Name("F6"), Integer(12)>>),
     Op("q", <<>>)}

InitFlags == InitPage(FlagOps, FlagFonts, None, <<>>)

NextFlags ==
    \/ BeginPage
    \/ Return
    \/ OpTf
    \/ OpSave

SpecFlags == InitFlags /\ [][NextFlags]_vars

\* the font dictionary the k-th operator, a Tf, names
FontNamedBy(k) == FindFont(FontTable, consumed[k].operands[1].str)[1]

\* the family the classification by Flags asks for
GenericFamily(flags) ==
    IF FlagSet(flags, 0) THEN <<"Monospace", "">>
    ELSE IF FlagSet(flags, 1) THEN <<"Serif", "">>
    ELSE IF FlagSet(flags, 3) THEN <<"Cursive", "">>
    ELSE <<"SansSerif", "">>

\* C23: Tf on a font without a usable program and without a FontFamily
\* records the generic family its Flags select: monospace for fixed-pitch,
\* else serif, else cursive for script, else sans-serif.
C23_FlagsSelectGenericFamily ==
    \A k \in 1..Len(consumed) :
        (/\ consumed[k].operator = "Tf"
         /\ FindFont(FontTable, consumed[k].operands[1].str) # None
         /\ FontNamedBy(k).desc # None
         /\ FontNamedBy(k).desc[1].Flags # None
         /\ FontNamedBy(k).desc[1].FontFamily = None
         /\ FindFace(font_db, FontNamedBy(k).BaseFont[1]) = None)
            => Last(hist[k + 1].graphics_states).text_attrs.family
                 = GenericFamily(FontNamedBy(k).desc[1].Flags[1])

\* the priority alone: which of the four classes the Flags select
FamilyClass(family) ==
    CASE family \in {<<"Monospace", "">>, <<"Name", "Liberation Mono">>} -> "mono"
      [] family \in {<<"Serif", "">>, <<"Name", "Liberation Serif">>} -> "serif"
      [] family = <<"Cursive", "">> -> "cursive"
      [] family \in {<<"SansSerif", "">>, <<"Name", "Liberation Sans">>} -> "sans"
      [] OTHER -> "other"

FlagsPriorityHolds ==
    \A k \in 1..Len(consumed) :
        consumed[k].operator = "Tf" =>
            FamilyClass(Last(hist[k + 1].graphics_states).text_attrs.family)
              = FamilyClass(GenericFamily(FontNamedBy(k).desc[1].Flags[1]))

-----------------------------------------------------------------------------
(* Tf: the FontWeight of the descriptor *)

\* the values a Weight can hold: Weight(u16)
WeightMin == 0
WeightMax == 65535

WeightFonts ==
    <<DescribedFont("W1", None, Some(700)), DescribedFont("W2", None, Some(-1)),
      DescribedFont("W3", None, Some(WeightMax)),
      DescribedFont("W4", None, Some(WeightMax + 1)),
      DescribedFont("W5", None, Some(0))>>

WeightOps ==
    {Op("Tf", <<Name("W1"), Integer(12)>>), Op("Tf", <<Name("W2"), Integer(12)>>),
     Op("Tf", <<Name("W3"), Integer(12)>>), Op("Tf", <<Name("W4"), Integer(12)>>),
     Op("Tf", <<Name("W5"), Integer(12)>>), Op("q", <<>>)}

InitWeight == InitPage(WeightOps, WeightFonts, None, <<>>)

NextWeight ==
    \/ BeginPage
    \/ Return
    \/ OpTf
    \/ OpSave

SpecWeight == InitWeight /\ [][NextWeight]_vars

Clamp(n, lo, hi) == IF n < lo THEN lo ELSE IF n > hi THEN hi ELSE n

\* C24: the weight Tf records is the descriptor's FontWeight clamped to the
\* range of weights: the lower bound for a smaller value, the upper bound for
\* a larger one.
C24_WeightClamped ==
    \A k \in 1..Len(consumed) :
        (/\ consumed[k].operator = "Tf"
         /\ FontNamedBy(k).desc[1].FontWeight # None)
            => Last(hist[k + 1].graphics_states).text_attrs.weight
                 = Clamp(FontNamedBy(k).desc[1].FontWeight[1],
                         WeightMin, WeightMax)

\* a FontWeight inside the range is recorded as it is
WeightInRangeKept ==
    \A k \in 1..Len(consumed) :
        (/\ consumed[k].operator = "Tf"
         /\ FontNamedBy(k).desc[1].FontWeight[1] >= WeightMin
         /\ FontNamedBy(k).desc[1].FontWeight[1] <= WeightMax)
            => Last(hist[k + 1].graphics_states).text_attrs.weight
                 = FontNamedBy(k).desc[1].FontWeight[1]

-----------------------------------------------------------------------------
(* The vertical flip *)

\* the path the k-th operator, a painting operator, finishes
PaintedSegs(k) ==
    IF PaintingTable(consumed[k].operator).close
    THEN Append(hist[k].p, CloseSeg)
    ELSE hist[k].p

\* the k-th operator painted a path
Painted(k) ==
    /\ consumed[k].operator \in PaintingArm
    /\ EmittedBy(k) # {}

\* the k-th operator showed text
Shown(k) ==
    /\ consumed[k].operator \in {"Tj", "TJ"}
    /\ EmittedBy(k) # {}

\* the glyph outlines of an emitted text operation are flipped, then moved by
\* a cursor transform
GlyphsFlipped(op) ==
    \A g \in 1..Len(op.path[1].glyphs) :
        \E c \in {hist[k].text_states[Len(hist[k].text_states)].cursor_tf :
                     k \in {j \in 1..Len(hist) : hist[j].text_states # <<>>}} :
            op.path[1].glyphs[g].tf = <<c[1], c[2], -c[3], -c[4], c[5], c[6]>>

\* C25 as claimed: every emitted geometry carries the flip, painted paths and
\* glyph outlines alike.
C25_FlipOnEveryGeometry ==
    \A k \in 1..Len(consumed) :
        /\ Painted(k) =>
              page_ops[hist[k + 1].out_len].path[1].segs
                = TransformPath(TransformPath(PaintedSegs(k), Flip),
                                Last(hist[k].graphics_states).transform)
        /\ Shown(k) =>
              \A n \in EmittedBy(k) : GlyphsFlipped(page_ops[n])

\* C25 (amended): glyph outlines are emitted flipped and then moved by the
\* cursor transform; a painted path is emitted under the current transform
\* alone, without a flip.
C25_FlipOnGlyphsOnly ==
    \A k \in 1..Len(consumed) :
        /\ Painted(k) =>
              page_ops[hist[k + 1].out_len].path[1].segs
                = [i \in 1..Len(PaintedSegs(k)) |->
                     Seg(PaintedSegs(k)[i].seg,
                         [j \in 1..Len(PaintedSegs(k)[i].pts) |->
                            TransformPoint(
                                Last(hist[k].graphics_states).transform,
                                PaintedSegs(k)[i].pts[j])])]
        /\ Shown(k) =>
              \A n \in EmittedBy(k) : GlyphsFlipped(page_ops[n])

\* C25 witness: a rectangle was stroked under a scaling transform and a run
\* was shown
C25_Witness ==
    /\ \E k \in 1..Len(consumed) :
          /\ Painted(k)
          /\ PaintedSegs(k) # <<>>
          /\ Last(hist[k].graphics_states).transform[1] = 2
    /\ \E k \in 1..Len(consumed) : Shown(k)

-----------------------------------------------------------------------------
(* Text positioning: TD, T*, Td *)

\* the k-th operator is a well-formed op met inside a text object
InTextObject(k, operator) ==
    /\ consumed[k].operator = operator
    /\ hist[k].text_states # <<>>
    /\ hist[k].graphics_states # <<>>

\* the transform t with the translation by v put in front of it
Moved(t, v) ==
    <<t[1], t[2], t[3], t[4],
      v[1] * t[1] + v[2] * t[3] + t[5], v[1] * t[2] + v[2] * t[4] + t[6]>>

\* C26: TD(x, y) moves the line as Td(x, y) does and sets the leading to -y,
\* so that a T* directly after it moves the line start by (0, y).
C26_TDSetsLeading ==
    \A k \in 1..Len(consumed) :
        (InTextObject(k, "TD") /\ FloatsOk(consumed[k].operands, 2)) =>
            LET x == consumed[k].operands[1].num
                y == consumed[k].operands[2].num
                line == Last(hist[k].text_states).line_tf
            IN  /\ Last(hist[k + 1].text_states).line_tf = Moved(line, <<x, y>>)
                /\ Last(hist[k + 1].graphics_states).text_leading = -y
                /\ (k < Len(consumed) /\ consumed[k + 1].operator = "T*")
                      => Last(hist[k + 2].text_states).line_tf
                           = Moved(Moved(line, <<x, y>>), <<0, y>>)

-----------------------------------------------------------------------------
(* Where a text run is placed *)

\* C27: the outline of a shown run is flipped, then moved by the cursor
\* transform, then by the transform of the top graphics-state frame.
C27_TextUnderPageTransform ==
    \A k \in 1..Len(consumed) :
        (consumed[k].operator = "Tj" /\ Shown(k)) =>
            \A g \in 1..Len(page_ops[hist[k + 1].out_len].path[1].glyphs) :
                page_ops[hist[k + 1].out_len].path[1].glyphs[g].tf
                  = Then(Then(Flip, Last(hist[k].text_states).cursor_tf),
                         Last(hist[k].graphics_states).transform)

-----------------------------------------------------------------------------
(* Colour components that do not fit the colour space *)

ShortColorOps ==
    {Op("cs", <<Name("DeviceRGB")>>), Op("CS", <<Name("DeviceCMYK")>>),
     Op("scn", <<Integer(1), Integer(0)>>), Op("G", <<>>),
     Op("re", <<Integer(0), Integer(0), Integer(1), Integer(1)>>),
     Op("f", <<>>), Op("S", <<>>), Op("BT", <<>>), Op("Tj", <<String("a")>>)}

InitShortColor == InitPage(ShortColorOps, <<>>, None, <<>>)

NextShortColor ==
    \/ BeginPage
    \/ Return
    \/ OpFillColorSpace
    \/ OpStrokeColorSpace
    \/ OpFillColor
    \/ OpStrokeDevice
    \/ OpRe
    \/ OpPaint
    \/ OpBT
    \/ OpShowText

SpecShortColor == InitShortColor /\ [][NextShortColor]_vars

\* C28: whatever the colour operators before it, a painting operator, or a
\* show-text operator inside a text object, resolves its colour without a
\* fault: it emits its operation and the interpretation goes on.
C28_ColorNeverFaults ==
    [][(/\ Interprets
        /\ \/ Interpreted.operator \in PaintingArm
           \/ Interpreted.operator = "Tj" /\ text_states # <<>>)
           => (status' = "running" /\ Len(page_ops') = Len(page_ops) + 1)]_vars

-----------------------------------------------------------------------------
(* Lines of text: the leading, T* and Td after shown text *)

LineOps ==
    {Op("BT", <<>>), Op("Tf", <<Name("F1"), Integer(12)>>),
     Op("TL", <<Integer(14)>>), Op("T*", <<>>),
     Op("Td", <<Integer(1), Integer(2)>>),
     Op("Tm", <<Integer(2), Integer(0), Integer(0), Integer(3), Integer(5),
                Integer(6)>>),
     Op("Tj", <<String("ab")>>),
     Op("TJ", <<Array(<<String("a"), Integer(-1000), String("bc")>>)>>)}

InitLine == InitPage(LineOps, <<>>, None, <<>>)

NextLine ==
    \/ BeginPage
    \/ Return
    \/ OpBT
    \/ OpTf
    \/ OpTL
    \/ OpTStar
    \/ OpTd
    \/ OpTm
    \/ OpShowText

SpecLine == InitLine /\ [][NextLine]_vars

\* text was shown on the line the k-th operator leaves: the cursor is ahead
\* of the line start
Advanced(k) ==
    Last(hist[k].text_states).cursor_tf # Last(hist[k].text_states).line_tf

\* C29: T* moves the line start by (0, -leading), with the leading of that
\* moment, and puts the cursor at the new line start, whatever the cursor had
\* advanced.
C29_NextLine ==
    \A k \in 1..Len(consumed) :
        InTextObject(k, "T*") =>
            LET moved == Moved(Last(hist[k].text_states).line_tf,
                           <<0, -Last(hist[k].graphics_states).text_leading>>)
            IN  /\ Last(hist[k + 1].text_states).line_tf = moved
                /\ Last(hist[k + 1].text_states).cursor_tf = moved

\* C29 witness: a T* under a leading of 14 and a scaling text matrix, after
\* text was shown on the line
C29_Witness ==
    \E k \in 1..Len(consumed) :
        /\ InTextObject(k, "T*")
        /\ Advanced(k)
        /\ Last(hist[k].graphics_states).text_leading = 14
        /\ Last(hist[k + 1].text_states).line_tf[6]
             = Last(hist[k].text_states).line_tf[6] - 14

\* C30: Td(x, y) moves the line start by (x, y), from the line start and not
\* from the advanced cursor, and puts the cursor there; showing text leaves
\* the line transform as it was.
C30_MoveFromLineStart ==
    \A k \in 1..Len(consumed) :
        /\ (InTextObject(k, "Td") /\ FloatsOk(consumed[k].operands, 2)) =>
              LET moved == Moved(Last(hist[k].text_states).line_tf,
                                 <<consumed[k].operands[1].num,
                                   consumed[k].operands[2].num>>)
              IN  /\ Last(hist[k + 1].text_states).line_tf = moved
                  /\ Last(hist[k + 1].text_states).cursor_tf = moved
        /\ (InTextObject(k, "Tj") \/ InTextObject(k, "TJ")) =>
              Last(hist[k + 1].text_states).line_tf
                = Last(hist[k].text_states).line_tf

\* C30 witness: a Td after text was shown under a scaling text matrix
C30_Witness ==
    \E k \in 2..Len(consumed) :
        /\ InTextObject(k, "Td")
        /\ Advanced(k)
        /\ consumed[k - 1].operator \in {"Tj", "TJ"}
        /\ Last(hist[k].text_states).line_tf = <<2, 0, 0, 3, 5, 6>>
        /\ Last(hist[k + 1].text_states).cursor_tf = <<2, 0, 0, 3, 7, 12>>

-----------------------------------------------------------------------------
(* The text matrix and the start of a text object *)

MatrixOps ==
    {Op("BT", <<>>), Op("ET", <<>>),
     Op("Tf", <<Name("F1"), Integer(12)>>),
     Op("Tm", <<Integer(2), Integer(0), Integer(0), Integer(3), Integer(5),
                Integer(6)>>),
     Op("Tm", <<Integer(1), Integer(0), Integer(0), Integer(1), Integer(7),
                Integer(8)>>),
     Op("Td", <<Integer(1), Integer(2)>>),
     Op("Tj", <<String("ab")>>)}

InitMatrix == InitPage(MatrixOps, <<>>, None, <<>>)

NextMatrix ==
    \/ BeginPage
    \/ Return
    \/ OpBT
    \/ OpET
    \/ OpTf
    \/ OpTm
    \/ OpTd
    \/ OpShowText

SpecMatrix == InitMatrix /\ [][NextMatrix]_vars

\* C31: Tm(a, b, c, d, e, f) in a text object sets the line transform and
\* the cursor transform to exactly (a, b, c, d, e, f), whatever they were
\* before it; of two successive Tm only the last has an effect.
C31_TmReplaces ==
    \A k \in 1..Len(consumed) :
        (InTextObject(k, "Tm") /\ FloatsOk(consumed[k].operands, 6)) =>
            LET given == [i \in 1..6 |-> consumed[k].operands[i].num]
            IN  /\ Last(hist[k + 1].text_states).line_tf = given
                /\ Last(hist[k + 1].text_states).cursor_tf = given

\* C31 witness: a Tm directly after a Tm of another matrix
C31_Witness ==
    \E k \in 2..Len(consumed) :
        /\ InTextObject(k, "Tm")
        /\ InTextObject(k - 1, "Tm")
        /\ consumed[k - 1] # consumed[k]
        /\ Last(hist[k].text_states).line_tf = <<2, 0, 0, 3, 5, 6>>
        /\ Last(hist[k + 1].text_states).line_tf = <<1, 0, 0, 1, 7, 8>>

\* C32: every BT opens a text object whose line transform and cursor
\* transform are the identity, whatever an earlier or an enclosing text
\* object has reached.
C32_BTStartsAtIdentity ==
    \A k \in 1..Len(consumed) :
        consumed[k].operator = "BT" =>
            /\ Len(hist[k + 1].text_states) = Len(hist[k].text_states) + 1
            /\ Last(hist[k + 1].text_states).line_tf = <<1, 0, 0, 1, 0, 0>>
            /\ Last(hist[k + 1].text_states).cursor_tf = <<1, 0, 0, 1, 0, 0>>

\* C32 witness: a BT inside a text object whose transforms have moved
C32_Witness ==
    \E k \in 1..Len(consumed) :
        /\ InTextObject(k, "BT")
        /\ Last(hist[k].text_states).line_tf = <<2, 0, 0, 3, 5, 6>>
        /\ Len(hist[k + 1].text_states) = 2
        /\ hist[k + 1].text_states[1].line_tf = <<2, 0, 0, 3, 5, 6>>

-----------------------------------------------------------------------------
(* Save and restore around path construction and colour operators *)

LateOps ==
    {Op("q", <<>>), Op("Q", <<>>),
     Op("cm", <<Integer(2), Integer(0), Integer(0), Integer(2), Integer(5),
                Integer(7)>>),
     Op("re", <<Integer(0), Integer(0), Integer(1), Integer(1)>>),
     Op("rg", <<Integer(1), Integer(0), Integer(0)>>),
     Op("S", <<>>), Op("f", <<>>)}

InitLate == InitPage(LateOps, <<>>, None, <<>>)

NextLate ==
    \/ BeginPage
    \/ Return
    \/ OpSave
    \/ OpRestore
    \/ OpCm
    \/ OpRe
    \/ OpFillDevice
    \/ OpPaint

SpecLate == InitLate /\ [][NextLate]_vars

\* the point (x, y) under the transform t
Under(t, pt) ==
    <<pt[1] * t[1] + pt[2] * t[3] + t[5], pt[1] * t[2] + pt[2] * t[4] + t[6]>>

\* the segments the accumulator holds before the k-th operator were appended
\* under another transform than the one in force at the k-th operator
BuiltUnderAnother(k) ==
    \E j \in 1..(k - 1) :
        /\ consumed[j].operator = "re"
        /\ hist[j].graphics_states # <<>>
        /\ Last(hist[j].graphics_states).transform
             # Last(hist[k].graphics_states).transform
        /\ \A i \in j..(k - 1) : consumed[i].operator \notin PaintingArm

\* C33: a painted path is the accumulated path, every segment of it, under
\* the transform of the top frame at the painting operator, whatever the
\* transform was when the segments were appended.
C33_TransformAtPainting ==
    \A k \in 1..Len(consumed) :
        Painted(k) =>
            LET t == Last(hist[k].graphics_states).transform
                emitted == page_ops[hist[k + 1].out_len].path[1].segs
            IN  /\ Len(emitted) = Len(PaintedSegs(k))
                /\ \A i \in 1..Len(emitted) :
                      /\ emitted[i].seg = PaintedSegs(k)[i].seg
                      /\ Len(emitted[i].pts) = Len(PaintedSegs(k)[i].pts)
                      /\ \A j \in 1..Len(emitted[i].pts) :
                            emitted[i].pts[j]
                              = Under(t, PaintedSegs(k)[i].pts[j])

\* C33 witness: a rectangle appended under one transform and painted after a
\* cm or a Q had made another the current one
C33_Witness ==
    \E k \in 2..Len(consumed) :
        /\ Painted(k)
        /\ BuiltUnderAnother(k)
        /\ consumed[k - 1].operator \in {"cm", "Q"}
        /\ hist[k].p # <<>>

\* C39: the fill and the stroke colour are no part of the saved graphics
\* state: q and Q leave the space names and the components as they are, and
\* a fill painted after a Q carries the colour set before that Q, inside the
\* saved section or not.
C39_ColorOutsideSavedState ==
    /\ [][(Interprets /\ Interpreted.operator \in {"q", "Q"})
             => /\ color_space_fill' = color_space_fill
                /\ color_fill' = color_fill
                /\ color_space_stroke' = color_space_stroke
                /\ color_stroke' = color_stroke]_vars
    /\ [](\A k \in 1..Len(consumed) :
              (/\ Painted(k)
               /\ page_ops[hist[k + 1].out_len].fill # None
               /\ LastBefore(k, {"rg"}) # 0)
                 => page_ops[hist[k + 1].out_len].fill[1].color = <<1, 0, 0>>)

\* C39 witness: a fill after q, rg 1 0 0, Q: the colour of the saved section
C39_Witness ==
    \E k \in 4..Len(consumed) :
        /\ consumed[k].operator = "f"
        /\ Painted(k)
        /\ LastBefore(k, {"Q"}) > LastBefore(k, {"rg"})
        /\ LastBefore(k, {"rg"}) > LastBefore(k, {"q"})
        /\ LastBefore(k, {"q"}) # 0
        /\ Len(hist[LastBefore(k, {"Q"}) + 1].graphics_states) = 1
        /\ page_ops[hist[k + 1].out_len].fill[1].color = <<1, 0, 0>>

-----------------------------------------------------------------------------
(* The painting tokens, one by one *)

TableOps ==
    {Op(token, <<>>) : token \in PaintingTokens}
        \cup {Op("re", <<Integer(0), Integer(0), Integer(1), Integer(1)>>)}

InitTable == InitPage(TableOps, <<>>, None, <<>>)

NextTable ==
    \/ BeginPage
    \/ Return
    \/ OpRe
    \/ OpPaint
    \/ OpUnknown

SpecTable == InitTable /\ [][NextTable]_vars

\* what the table says of a token, on the operation n
DecodedAs(token, n) ==
    /\ page_ops[n].path # None
    /\ page_ops[n].fill # None
         <=> token \in {"b", "B", "b*", "B*", "f", "F", "f*"}
    /\ page_ops[n].stroke # None <=> token \in {"b", "B", "b*", "B*", "s", "S"}
    /\ page_ops[n].fill # None =>
          page_ops[n].fill[1].rule
            = IF token \in {"b*", "B*", "f*"} THEN "EvenOdd" ELSE "NonZero"

\* C34: each painting token emits an operation whose fill is present exactly
\* for b, B, b*, B*, f, F, f*, whose stroke is present exactly for b, B, b*,
\* B*, s, S, and whose fill rule is even-odd exactly for the starred tokens;
\* n emits an operation with neither.
C34_TableDecoded ==
    \A k \in 1..Len(consumed) :
        consumed[k].operator \in PaintingTokens =>
            /\ hist[k + 1].out_len = hist[k].out_len + 1
            /\ DecodedAs(consumed[k].operator, hist[k + 1].out_len)

\* the same of the tokens the painting arm lists
TableDecodedInArm ==
    \A k \in 1..Len(consumed) :
        consumed[k].operator \in PaintingArm =>
            /\ hist[k + 1].out_len = hist[k].out_len + 1
            /\ DecodedAs(consumed[k].operator, hist[k + 1].out_len)

-----------------------------------------------------------------------------
(* The ten colour operators *)

FillColorTokens == {"g", "k", "rg", "cs", "scn"}
StrokeColorTokens == {"G", "K", "RG", "CS", "SCN"}

InkOps ==
    {Op("g", <<Integer(1)>>), Op("G", <<Integer(1)>>),
     Op("k", <<Integer(0), Integer(0), Integer(0), Integer(1)>>),
     Op("K", <<Integer(0), Integer(0), Integer(0), Integer(1)>>),
     Op("rg", <<Integer(1), Integer(0), Integer(0)>>),
     Op("RG", <<Integer(0), Integer(0), Integer(1)>>),
     Op("cs", <<Name("DeviceRGB")>>), Op("CS", <<Name("DeviceCMYK")>>),
     Op("scn", <<Integer(0), Integer(1), Integer(0)>>),
     Op("SCN", <<Integer(1), Integer(1), Integer(0), Integer(0)>>),
     Op("re", <<Integer(0), Integer(0), Integer(1), Integer(1)>>)}

InitInk == InitPage(InkOps, <<>>, None, <<>>)

NextInk ==
    \/ BeginPage
    \/ Return
    \/ OpFillColorSpace
    \/ OpStrokeColorSpace
    \/ OpFillDevice
    \/ OpStrokeDevice
    \/ OpFillColor
    \/ OpStrokeColor
    \/ OpRe

SpecInk == InitInk /\ [][NextInk]_vars

\* C35: a fill colour operator leaves the stroke colour as it was and a
\* stroke colour operator the fill colour; none of the ten emits an operation
\* or writes the stacks or the path accumulator; cs and CS leave the
\* components and scn and SCN the space name as they were.
C35_ColorOperatorFrame ==
    [][Interprets =>
         /\ Interpreted.operator \in FillColorTokens
              => /\ color_space_stroke' = color_space_stroke
                 /\ color_stroke' = color_stroke
         /\ Interpreted.operator \in StrokeColorTokens
              => /\ color_space_fill' = color_space_fill
                 /\ color_fill' = color_fill
         /\ Interpreted.operator \in FillColorTokens \cup StrokeColorTokens
              => /\ page_ops' = page_ops
                 /\ graphics_states' = graphics_states
                 /\ text_states' = text_states
                 /\ p' = p
         /\ Interpreted.operator = "cs" => color_fill' = color_fill
         /\ Interpreted.operator = "CS" => color_stroke' = color_stroke
         /\ Interpreted.operator = "scn"
              => color_space_fill' = color_space_fill
         /\ Interpreted.operator = "SCN"
              => color_space_stroke' = color_space_stroke]_vars

\* C35 witness: after rg, SCN, re the operator cs has named a space: the
\* fill components are those of rg, the stroke components those of SCN, the
\* accumulator holds the rectangle
C35_Witness ==
    /\ Len(consumed) >= 4
    /\ consumed[Len(consumed)].operator = "cs"
    /\ color_space_fill = "DeviceRGB"
    /\ color_fill = <<Integer(1), Integer(0), Integer(0)>>
    /\ color_stroke = <<Integer(1), Integer(1), Integer(0), Integer(0)>>
    /\ color_space_stroke = "DeviceGray"
    /\ p # <<>>
    /\ page_ops = <<>>

-----------------------------------------------------------------------------
(* Frames below the top of the two stacks *)

FrameOps ==
    {Op("q", <<>>), Op("BT", <<>>),
     Op("cm", <<Integer(2), Integer(0), Integer(0), Integer(2), Integer(5),
                Integer(7)>>),
     Op("j", <<Integer(1)>>), Op("w", <<Real(3)>>),
     Op("Tf", <<Name("F1"), Integer(12)>>), Op("TL", <<Integer(14)>>),
     Op("Ts", <<Integer(2)>>), Op("Td", <<Integer(1), Integer(2)>>),
     Op("Tm", <<Integer(2), Integer(0), Integer(0), Integer(3), Integer(5),
                Integer(6)>>),
     Op("T*", <<>>), Op("Tj", <<String("ab")>>)}

InitFrame == InitPage(FrameOps, <<>>, None, <<>>)

NextFrame ==
    \/ BeginPage
    \/ Return
    \/ OpSave
    \/ OpBT
    \/ OpCm
    \/ OpJ
    \/ OpW
    \/ OpTf
    \/ OpTL
    \/ OpTs
    \/ OpTd
    \/ OpTm
    \/ OpTStar
    \/ OpShowText

SpecFrame == InitFrame /\ [][NextFrame]_vars

\* the frames of a stack below its top
Lower(stack) == SubSeq(stack, 1, Len(stack) - 1)

\* C36: an operator writes the top frame only: cm, j, w, Tf, TL, Ts leave
\* every lower graphics-state frame as it was, and the positioning and showing
\* operators leave the text states of the enclosing text objects as they were.
C36_LowerFramesKept ==
    \A k \in 1..Len(consumed) :
        /\ consumed[k].operator \in {"cm", "j", "w", "Tf", "TL", "Ts"} =>
              /\ Len(hist[k + 1].graphics_states) = Len(hist[k].graphics_states)
              /\ Lower(hist[k + 1].graphics_states)
                   = Lower(hist[k].graphics_states)
        /\ consumed[k].operator \in {"Td", "Tm", "T*", "Tj"} =>
              /\ Len(hist[k + 1].text_states) = Len(hist[k].text_states)
              /\ Lower(hist[k + 1].text_states) = Lower(hist[k].text_states)
              /\ hist[k + 1].graphics_states = hist[k].graphics_states

\* C36 witness: a cm after q has moved the top frame and not the saved one,
\* and a Td in a nested text object the inner text state and not the outer
C36_Witness ==
    /\ \E k \in 2..Len(consumed) :
          /\ consumed[k].operator = "cm"
          /\ Len(hist[k + 1].graphics_states) = 2
          /\ hist[k + 1].graphics_states[2].transform # <<1, 0, 0, 1, 0, 0>>
          /\ hist[k + 1].graphics_states[1].transform = <<1, 0, 0, 1, 0, 0>>
    /\ \E k \in 3..Len(consumed) :
          /\ consumed[k].operator = "Td"
          /\ Len(hist[k + 1].text_states) = 2
          /\ hist[k + 1].text_states[2].line_tf = <<1, 0, 0, 1, 1, 2>>
          /\ hist[k + 1].text_states[1].line_tf = <<1, 0, 0, 1, 0, 0>>
          /\ hist[k + 1].text_states[1].cursor_tf = <<1, 0, 0, 1, 0, 0>>

-----------------------------------------------------------------------------
(* The text style: a part of the graphics state *)

StyleOps ==
    {Op("Tf", <<Name("F1"), Integer(12)>>), Op("TL", <<Integer(14)>>),
     Op("Ts", <<Integer(2)>>), Op("BT", <<>>), Op("ET", <<>>),
     Op("q", <<>>), Op("Q", <<>>)}

InitStyle == InitPage(StyleOps, <<>>, None, <<>>)

NextStyle ==
    \/ BeginPage
    \/ Return
    \/ OpTf
    \/ OpTL
    \/ OpTs
    \/ OpBT
    \/ OpET
    \/ OpSave
    \/ OpRestore

SpecStyle == InitStyle /\ [][NextStyle]_vars

\* the text style of a frame
StyleOf(gs) ==
    <<gs.text_attrs, gs.text_encoding, gs.text_size, gs.text_leading,
      gs.text_rise>>

\* C37: Tf, TL and Ts write the top graphics-state frame, with or without an
\* open text object; BT and ET leave the graphics-state stack as it was; the
\* Q of a matched pair leaves the text style the frame had at its q.
C37_StyleInGraphicsState ==
    /\ \A k \in 1..Len(consumed) :
          hist[k].graphics_states # <<>> =>
              /\ consumed[k].operator = "Tf"
                   => Last(hist[k + 1].graphics_states).text_size = 12
              /\ consumed[k].operator = "TL"
                   => Last(hist[k + 1].graphics_states).text_leading = 14
              /\ consumed[k].operator = "Ts"
                   => Last(hist[k + 1].graphics_states).text_rise = 2
              /\ consumed[k].operator \in {"BT", "ET"}
                   => hist[k + 1].graphics_states = hist[k].graphics_states
    /\ \A i, j \in 1..Len(consumed) :
          (MatchedPair(i, j) /\ hist[i].graphics_states # <<>>) =>
              /\ hist[j + 1].graphics_states # <<>>
              /\ StyleOf(Last(hist[j + 1].graphics_states))
                   = StyleOf(Last(hist[i].graphics_states))

\* C37 witness: Tf with no text object open, then q, TL 14, Q: the size is
\* 12 and the leading is back from 14 to 0
C37_Witness ==
    \E i, j \in 1..Len(consumed) :
        /\ MatchedPair(i, j)
        /\ hist[i].text_states = <<>>
        /\ hist[i].graphics_states # <<>>
        /\ hist[j].graphics_states # <<>>
        /\ hist[j + 1].graphics_states # <<>>
        /\ Last(hist[i].graphics_states).text_size = 12
        /\ Last(hist[j].graphics_states).text_leading = 14
        /\ Last(hist[j + 1].graphics_states).text_leading = 0
        /\ Last(hist[j + 1].graphics_states).text_size = 12

-----------------------------------------------------------------------------
(* The two kinds of operation *)

\* C38: a Do naming a resolvable image emits exactly one operation, with the
\* image present and path, fill and stroke absent; an operation emitted by a
\* painting or a show-text operator has its path present and no image; every
\* operation of the list carries exactly one of path and image.
C38_PathOrImage ==
    /\ \A k \in 1..Len(consumed) :
          /\ (/\ consumed[k].operator = "Do"
              /\ NameOk(consumed[k].operands, 1)
              /\ ~Unresolvable(consumed[k])) =>
                 /\ hist[k + 1].out_len = hist[k].out_len + 1
                 /\ page_ops[hist[k + 1].out_len].image # None
                 /\ page_ops[hist[k + 1].out_len].path = None
                 /\ page_ops[hist[k + 1].out_len].fill = None
                 /\ page_ops[hist[k + 1].out_len].stroke = None
          /\ consumed[k].operator \in PaintingArm \cup {"Tj", "TJ"} =>
                 \A n \in EmittedBy(k) :
                    /\ page_ops[n].path # None
                    /\ page_ops[n].image = None
    /\ \A n \in 1..Len(page_ops) :
          (page_ops[n].path # None) # (page_ops[n].image # None)

\* C38 witness: a list of three operations: a stroked path, a text and the
\* image Im1
C38_Witness ==
    \E i, j, k \in 1..Len(consumed) :
        /\ consumed[i].operator = "S" /\ EmittedBy(i) # {}
        /\ consumed[j].operator = "Tj" /\ EmittedBy(j) # {}
        /\ consumed[k] = Op("Do", <<Name("Im1")>>)
        /\ EmittedBy(k) # {}
        /\ page_ops[hist[k + 1].out_len].image[1].name = "Im1"
        /\ Len(page_ops) = 3

-----------------------------------------------------------------------------
(* Several invocations at once: progress *)

\* a Tj or TJ run, lines 705-725: Text::draw_with shapes the run and calls the
\* callback, which pushes and asks for no lock; draw_with itself serialises on
\* the catalog lock when the shaping reads the catalog, and takes nothing
\* when it does not
ShowBegin ==
    \E t \in Invocations :
        /\ At(t, "ops")
        /\ threads[t].lookups < MaxLookups
        /\ \/ /\ lock = None
              /\ lock' = Some(t)
           \/ lock' = lock
        /\ Goto(t, "showing")
        /\ UNCHANGED <<SequentialVars, font_db>>

\* draw_with returns; lines 726-728 advance the cursor
ShowEnd ==
    \E t \in Invocations :
        /\ At(t, "showing")
        /\ lock' = IF lock = Some(t) THEN None ELSE lock
        /\ threads' = [threads EXCEPT ![t].pc = "ops",
                          ![t].lookups = threads[t].lookups + 1]
        /\ UNCHANGED <<SequentialVars, font_db>>

NextFair ==
    \/ NextPool
    \/ ShowBegin
    \/ ShowEnd

\* a step of the invocation t, and a step by which it gets the lock
StepOf(t) == NextFair /\ threads'[t] # threads[t]
AcquireBy(t) == StepOf(t) /\ lock = None /\ lock' = Some(t)

\* every invocation goes on running, and the lock is fair: an invocation that
\* finds it free again and again gets it
SpecFair ==
    /\ InitPool
    /\ [][NextFair]_vars
    /\ \A t \in Invocations : WF_vars(StepOf(t)) /\ SF_vars(AcquireBy(t))

\* where an invocation asks for the lock with its next step
Requesting(t) == threads[t].pc \in {"enter", "ops"}

=============================================================================
